---- MODULE Spec2Model ----
(***************************************************************************)
(* A model of the native layer of afferent: the FloatBuffer               *)
(* (src/native/src/float_buffer.c and its bridge functions in              *)
(* src/native/src/lean_bridge.c), the glyph cache / text atlas and text    *)
(* layout (src/native/src/text_render.c), the buffer pool and the          *)
(* renderer's frame lifecycle (src/native/src/metal/render.h; their         *)
(* implementation files are not among the sources, so they follow the      *)
(* written design), and the draw functions of the bridge.                   *)
(*                                                                         *)
(* Numbers.  Reals are fixed-point integers with Unit = 1.0: a C double is  *)
(* any integer (a multiple of 0.5) and a C float an even integer (a         *)
(* multiple of 1.0), so that the cast (float)d loses information (it       *)
(* rounds down to the next even integer) and (double)f is exact.  size_t   *)
(* is modelled with SizeBits bits instead of 64, so that the product       *)
(* capacity * sizeof(float) wraps in the model as it wraps in the code.    *)
(***************************************************************************)
EXTENDS Integers, Sequences, FiniteSets, TLC

\* ------------------------------------------------------------------ bounds
\* largest in-range capacity of the small buffers of SpecFB
MaxCapacity == 3
\* floats written are 0, 2, .., 2 * MaxFloat
MaxFloat == 1
\* addresses malloc can return are 1..MaxAddr
MaxAddr == 2
\* width of size_t in the model (64 in the code)
SizeBits == 8
\* SpecVec: capacities Vec8Len .. Vec8Len + MaxExtra
MaxExtra == 0
\* SpecVec: particle counts 0..MaxCount handed to the bulk writers
MaxCount == 2
\* SpecVec: the number of sprite records of the sprite scenario
SpriteRecords == 8
\* SpecGlyphs: glyph bitmaps are 0..MaxBitmapW wide and 0..MaxBitmapH high
MaxBitmapW == 3
MaxBitmapH == 3
\* SpecGlyphs: cache_glyph is followed until the cursor is this far below the atlas
MaxRowsPast == 2
\* SpecText: texts have 0..MaxTextLen bytes
MaxTextLen == 2
\* SpecPool: acquire_buffer is asked for 1..MaxRequest bytes
MaxRequest == 2
\* SpecPool: the device hands out the buffers 1..MaxBuffers
MaxBuffers == 3
\* SpecDraw: instance arrays and FloatBuffers hold 0..MaxDrawLen floats
MaxDrawLen == 8
\* SpecDraw: instance counts are 0..MaxDrawCount
MaxDrawCount == 2
\* SpecBuffers: vertex and index arrays hold 0..MaxBufferLen elements
MaxBufferLen == 12
\* SpecHandles: at most MaxLive handles exist at a time and the destroy calls
\* of one handle are counted up to MaxDestroys
MaxLive == 2
MaxDestroys == 2
\* SpecFT: text_init is called while the count is below MaxInit, fonts are
\* loaded while fewer than MaxFonts exist, pixel sizes are 1..MaxFontSize
\* SpecCache, SpecCurl: byte strings have 0..MaxBytes bytes; a transfer
\* delivers 0..MaxChunks chunks
MaxBytes == 2
MaxChunks == 2
MaxInit == 3
MaxFonts == 2
MaxFontSize == 3

\* ------------------------------------------------------- program constants
NULL == 0
SizeofFloat == 4
\* 1.0f in the fixed-point number model below
Unit == 2
ParticleStride == 5
Vec8Len == 8
Vec5Len == 5
CircleStride == 4
\* text_render.c, scaled down: 1024 x 1024 atlas, 256 glyph table entries
ATLAS_WIDTH == 4
ATLAS_HEIGHT == 5
MAX_GLYPHS == 3
\* render.h, scaled down: 64 slots in each pool
BUFFER_POOL_SIZE == 2

AFFERENT_OK == "AFFERENT_OK"
AFFERENT_ERROR_BUFFER_FAILED == "AFFERENT_ERROR_BUFFER_FAILED"

\* ------------------------------------------------------------- number model
SizeMod == 2 ^ SizeBits
FloatVals == {2 * k : k \in 0..MaxFloat}
DoubleVals == 0..(2 * MaxFloat + 1)
\* (float)d
ToFloat(d) == 2 * (d \div 2)
\* (double)f
ToDouble(f) == f

Addrs == 1..MaxAddr
\* what malloc may return while the addresses in h are live
MallocResults(h) == {NULL} \cup (Addrs \ h)

\* ------------------------------------------------------------------- state
VARIABLES
    heap,         \* the addresses of the live malloc allocations
    handle,       \* the AfferentFloatBufferRef the host holds (NULL: none)
    fb_data,      \* buf->data
    fb_capacity,  \* buf->capacity
    mem,          \* the floats of the allocation buf->data points to
    out_slot,     \* the bridge's local `buffer`, the *out of the last create
    particles,    \* the host's particle FloatArray (doubles)
    fb_ret,       \* the last FloatBuffer call and what it returned
    watch,        \* history: one index of the buffer, picked at creation
    watch_val,    \* history: the last float written to index watch
    created,      \* history: capacity and data pointer as create set them
    sprite_log,   \* history: the floats of the sprite records written, in order
    face,         \* FT_Face: what FT_Load_Char renders for each codepoint
    font,         \* struct AfferentFont: glyph table, atlas, atlas cursor
    font_ret,     \* the last cache_glyph call and what it returned
    full_rows,    \* history: the fewest bitmap rows a call failed with for lack of
                  \* vertical room (NoFailure: no call failed so)
    text_ret,     \* the last measure / generate_vertices call: its arguments,
                  \* what it returned, and (history) what cache_glyph yielded
                  \* for each byte and where the pen stood
    g_buffer_pool,   \* BufferPool: the four slot arrays and their counts
    next_buffer,     \* the handle of the next buffer the device makes
    pool_ret,        \* the last pool call: its arguments and what it returned
    frame_returns,   \* history: how often each slot was returned since the last
                     \* reset_frame
    renderer_obj,    \* the AfferentRendererRef the host holds (NULL: none)
    renderer,        \* struct AfferentRenderer: the MSAA toggle, the active
                     \* pipeline pointers, the objects of the frame in progress
    rend_ret,        \* the last renderer call of the bridge and what it returned
    frames_open,     \* history: frames begun and not yet ended
    g_instance_buffer,           \* the bridge's staging buffer (NULL: none)
    g_instance_buffer_capacity,  \* its recorded capacity, in floats
    draw_ret,        \* the last draw call of the bridge: its arguments, what it
                     \* returned and the native draw call it made
    handles,         \* for each kind of handle: the host's object, the native
                     \* resource and (history) how often it was destroyed and freed
    host_ret,        \* the last buffer-creation call of the bridge
    g_ft_library,    \* text_render.c: the FreeType library handle, or NULL
    g_ft_init_count, \* text_render.c: the count of text initialisations
    ft_faces,        \* the fonts loaded and not yet destroyed
    ft_ret,          \* the last call of the text subsystem's life cycle
    sim,             \* the host's particle simulation: time step, particle
                     \* radius and screen size, the same in every call
    files,           \* disk cache: the destination file and the temporary file
    cache_ret,       \* the last lean_disk_cache_write call
    curl_ret         \* the last lean_curl_http_get_binary call

fbVars == <<heap, handle, fb_data, fb_capacity, mem, out_slot, particles,
            fb_ret, watch, watch_val, created, sprite_log>>

fontVars == <<face, font, font_ret, full_rows, text_ret>>

poolVars == <<g_buffer_pool, next_buffer, pool_ret, frame_returns>>

rendVars == <<renderer_obj, renderer, rend_ret, frames_open>>

drawVars == <<g_instance_buffer, g_instance_buffer_capacity, draw_ret>>

handleVars == <<handles, host_ret>>

ftVars == <<g_ft_library, g_ft_init_count, ft_faces, ft_ret>>

hostVars == <<sim, files, cache_ret, curl_ret>>

auxVars == <<handleVars, ftVars, hostVars>>

coreVars == <<fbVars, fontVars, poolVars, rendVars, drawVars>>

\* what the actions on handles, and those on the FreeType library, leave alone
exceptHandles == <<coreVars, ftVars, hostVars>>
exceptFT == <<coreVars, handleVars, hostVars>>

gpuVars == <<poolVars, rendVars, drawVars, auxVars>>

vars == <<fbVars, fontVars, gpuVars>>

\* markers outside the value and index ranges
NoFailure == 0 - 1
NoText == [op |-> "none"]
Unwritten == 0 - 1
NoIndex == 0 - 1
NoRet == [op |-> "none", result |-> AFFERENT_OK, io |-> "ok", index |-> NoIndex, value |-> 0]
Ret(op, result, io, index, value) ==
    [op |-> op, result |-> result, io |-> io, index |-> index, value |-> value]

\* ------------------------------------------------ render.h: the buffer pool
PoolNames == {"vertex_pool", "index_pool", "text_vertex_pool", "text_index_pool"}
SlotIndices == 1..BUFFER_POOL_SIZE
\* a PooledBuffer of the zero-initialised global
EmptySlot == [buffer |-> NULL, capacity |-> 0, in_use |-> FALSE]
EmptyPool == [slots |-> [i \in SlotIndices |-> EmptySlot], count |-> 0]
\* no slot: the buffer returned is not in the pool
NoSlot == 0
NoPoolCall == [op |-> "none"]

\* the pool part of the state while other parts are followed
IdlePool ==
    /\ g_buffer_pool = [p \in PoolNames |-> EmptyPool]
    /\ next_buffer = 1
    /\ pool_ret = NoPoolCall
    /\ frame_returns = [p \in PoolNames |-> [i \in SlotIndices |-> 0]]

\* ------------------------------------------------ render.h: the renderer
\* no renderer was created
NoRenderer == [created |-> FALSE]
NoRendCall == [op |-> "none"]
NoDraw == [op |-> "none"]
\* no native draw function was called
NoCall == [fn |-> "none"]

\* the renderer part of the state while other parts are followed
IdleRenderer ==
    /\ renderer_obj = NULL
    /\ renderer = NoRenderer
    /\ rend_ret = NoRendCall
    /\ frames_open = 0

\* the draw part of the state while other parts are followed
IdleDraw ==
    /\ g_instance_buffer = NULL
    /\ g_instance_buffer_capacity = 0
    /\ draw_ret = NoDraw

\* ------------------------------------------------ lean_bridge.c: handles
HandleKinds == {"window", "renderer", "buffer", "font", "float_buffer", "texture"}
\* no object was made, no native resource exists
NoHandle == [obj |-> "none", native |-> "none", destroys |-> 0, frees |-> 0]
NoHostCall == [op |-> "none"]
NoSim == [dt |-> 0, r |-> 0, w |-> 0, ht |-> 0]
\* a path without a file
Absent == [exists |-> FALSE, bytes |-> <<>>]

\* the remaining parts of the state while other parts are followed
IdleHandles ==
    /\ handles = [k \in HandleKinds |-> NoHandle]
    /\ host_ret = NoHostCall
    /\ g_ft_library = NULL
    /\ g_ft_init_count = 0
    /\ ft_faces = 0
    /\ ft_ret = NoHostCall

IdleCache ==
    /\ files = [dest |-> Absent, tmp |-> Absent]
    /\ cache_ret = NoHostCall

IdleAux ==
    /\ IdleHandles
    /\ sim = NoSim
    /\ IdleCache
    /\ curl_ret = NoHostCall

IdleGpu == IdlePool /\ IdleRenderer /\ IdleDraw /\ IdleAux

\* ------------------------------------------------------- float_buffer.c
ZeroFloats(n) == [k \in 1..n |-> 0]

\* the size handed to malloc and memset: capacity * sizeof(float) in size_t
AllocBytes(capacity) == (capacity * SizeofFloat) % SizeMod
AllocFloats(capacity) == AllocBytes(capacity) \div SizeofFloat

\* buf->data[i] = value.  A store past the end of the allocation does not
\* land in it: it hits memory the model does not own (undefined behaviour).
Store(m, i, value) ==
    IF i >= 0 /\ i < Len(m) THEN [m EXCEPT ![i + 1] = value] ELSE m

\* The values a load of buf->data[i] can produce: the stored float, or
\* anything when i is past the end of the allocation (undefined behaviour).
Load(m, i) ==
    IF i >= 0 /\ i < Len(m) THEN {m[i + 1]} ELSE FloatVals

FailedCreate ==
    [result |-> AFFERENT_ERROR_BUFFER_FAILED, live |-> {}, wrote_out |-> FALSE,
     out |-> NULL, data |-> NULL, capacity |-> 0, floats |-> <<>>]

\* bug: the header is not freed when the data allocation fails
create_leaks_header(capacity, out_null, p1, p2) ==
    IF out_null \/ p1 = NULL THEN FailedCreate
    ELSE IF p2 = NULL THEN [FailedCreate EXCEPT !.live = {p1}]
    ELSE [result |-> AFFERENT_OK, live |-> {p1, p2}, wrote_out |-> TRUE,
          out |-> p1, data |-> p2, capacity |-> capacity,
          floats |-> ZeroFloats(AllocFloats(capacity))]

\* afferent_float_buffer_create(capacity, out), p1 and p2 being what the two
\* malloc calls return: the result code, the allocations of the call that
\* stay live, whether *out was written and with what, and the new struct.
afferent_float_buffer_create(capacity, out_null, p1, p2) ==
    IF out_null THEN FailedCreate
    ELSE IF p1 = NULL THEN FailedCreate
    ELSE IF p2 = NULL THEN FailedCreate
    ELSE [result |-> AFFERENT_OK, live |-> {p1, p2}, wrote_out |-> TRUE,
          out |-> p1, data |-> p2, capacity |-> capacity,
          floats |-> ZeroFloats(AllocFloats(capacity))]

\* bug: the write lands one element further
set_off_by_one(m, index, value) == Store(m, index + 1, value)

afferent_float_buffer_set(m, index, value) == Store(m, index, value)

afferent_float_buffer_get(m, index) == Load(m, index)

afferent_float_buffer_capacity == fb_capacity

afferent_float_buffer_data == fb_data

\* bug: ptr[7] receives v6
set_vec8_last_wrong(m, index, v) ==
    Store(Store(Store(Store(Store(Store(Store(Store(m,
        index + 0, v[1]), index + 1, v[2]), index + 2, v[3]), index + 3, v[4]),
        index + 4, v[5]), index + 5, v[6]), index + 6, v[7]), index + 7, v[7])

\* ptr = buf->data + index; ptr[0] = v0; .. ptr[7] = v7
afferent_float_buffer_set_vec8(m, index, v) ==
    Store(Store(Store(Store(Store(Store(Store(Store(m,
        index + 0, v[1]), index + 1, v[2]), index + 2, v[3]), index + 3, v[4]),
        index + 4, v[5]), index + 5, v[6]), index + 6, v[7]), index + 7, v[8])

\* The five-float batched write the bridge calls; its definition is in no
\* file of src/, so it is modelled after set_vec8 and the specification.
afferent_float_buffer_set_vec5(m, index, v) ==
    Store(Store(Store(Store(Store(m,
        index + 0, v[1]), index + 1, v[2]), index + 2, v[3]), index + 3, v[4]),
        index + 4, v[5])

\* n successive afferent_float_buffer_set calls at index, index + 1, ..
RECURSIVE SetEach(_, _, _, _)
SetEach(m, index, v, n) ==
    IF n = 0 THEN m
    ELSE afferent_float_buffer_set(SetEach(m, index, v, n - 1), index + n - 1, v[n])

Live == handle /= NULL /\ handle \in heap

\* the indices a caller hands to set and get: within the capacity
IndexInputs ==
    {i \in 0..(fb_capacity - 1) : i < MaxCapacity \/ i = fb_capacity - 1}

WatchInputs(capacity) ==
    IF capacity = 0 THEN {NoIndex}
    ELSE {i \in 0..(capacity - 1) : i < MaxCapacity \/ i = capacity - 1}

\* capacities of SpecFB: small ones, and ones whose byte size wraps
Capacities ==
    (0..MaxCapacity) \cup {SizeMod \div SizeofFloat + k : k \in 0..1}

\* afferent_float_buffer_create called with out = NULL
CreateNullOut ==
    \E capacity \in Capacities :
        LET r == afferent_float_buffer_create(capacity, TRUE, NULL, NULL) IN
        /\ heap' = heap \cup r.live
        /\ fb_ret' = Ret("create_null_out", r.result, "none", NoIndex, 0)
        /\ UNCHANGED <<handle, fb_data, fb_capacity, mem, out_slot, particles,
                       watch, watch_val, created, sprite_log>>
        /\ UNCHANGED <<fontVars, gpuVars>>

\* lean_afferent_float_buffer_create: buffer = NULL, the native create, then
\* an IO error, or the external object wrapping the new buffer
lean_afferent_float_buffer_create ==
    /\ ~Live
    /\ \E capacity \in Capacities :
       \E p1 \in MallocResults(heap) :
       \E p2 \in MallocResults(heap \cup {p1}) :
       \E w \in WatchInputs(capacity) :
        LET r == afferent_float_buffer_create(capacity, FALSE, p1, p2)
            ok == r.result = AFFERENT_OK
            stage == IF p1 = NULL THEN 1 ELSE IF p2 = NULL THEN 2 ELSE 0
        IN
        /\ (p1 = NULL => p2 = NULL)
        /\ (~ok => w = NoIndex)
        /\ heap' = heap \cup r.live
        /\ out_slot' = IF r.wrote_out THEN r.out ELSE NULL
        /\ handle' = IF ok THEN out_slot' ELSE NULL
        /\ fb_data' = IF ok THEN r.data ELSE NULL
        /\ fb_capacity' = IF ok THEN r.capacity ELSE 0
        /\ mem' = IF ok THEN r.floats ELSE <<>>
        /\ fb_ret' = Ret("create", r.result, IF ok THEN "ok" ELSE "error", stage, capacity)
        /\ watch' = IF ok THEN w ELSE NoIndex
        /\ watch_val' = Unwritten
        /\ created' = [capacity |-> IF ok THEN capacity ELSE 0, data |-> fb_data']
        /\ UNCHANGED <<particles, sprite_log>>
        /\ UNCHANGED <<fontVars, gpuVars>>

\* lean_afferent_float_buffer_destroy: free(buf->data); free(buf).  The host
\* calls it once on a live buffer (a second call is not guarded against).
lean_afferent_float_buffer_destroy ==
    /\ Live
    /\ heap' = heap \ {fb_data, handle}
    /\ handle' = NULL
    /\ fb_data' = NULL
    /\ fb_capacity' = 0
    /\ mem' = <<>>
    /\ out_slot' = NULL
    /\ fb_ret' = Ret("destroy", AFFERENT_OK, "ok", NoIndex, 0)
    /\ watch' = NoIndex
    /\ watch_val' = Unwritten
    /\ created' = [capacity |-> 0, data |-> NULL]
    /\ UNCHANGED <<particles, sprite_log>>
    /\ UNCHANGED <<fontVars, gpuVars>>

\* lean_afferent_float_buffer_set: afferent_float_buffer_set(buffer, index, (float)value)
lean_afferent_float_buffer_set ==
    /\ Live
    /\ \E index \in IndexInputs : \E value \in DoubleVals :
        /\ mem' = afferent_float_buffer_set(mem, index, ToFloat(value))
        /\ watch_val' = IF index = watch THEN ToFloat(value) ELSE watch_val
        /\ fb_ret' = Ret("set", AFFERENT_OK, "ok", index, 0)
    /\ UNCHANGED <<heap, handle, fb_data, fb_capacity, out_slot, particles,
                   watch, created, sprite_log>>
    /\ UNCHANGED <<fontVars, gpuVars>>

\* lean_afferent_float_buffer_get: boxes (double)afferent_float_buffer_get(buffer, index)
lean_afferent_float_buffer_get ==
    /\ Live
    /\ \E index \in IndexInputs : \E value \in afferent_float_buffer_get(mem, index) :
        fb_ret' = Ret("get", AFFERENT_OK, "ok", index, ToDouble(value))
    /\ UNCHANGED <<heap, handle, fb_data, fb_capacity, mem, out_slot, particles,
                   watch, watch_val, created, sprite_log>>
    /\ UNCHANGED <<fontVars, gpuVars>>

\* afferent_float_buffer_capacity(buf)
FloatBufferCapacity ==
    /\ Live
    /\ fb_ret' = Ret("capacity", AFFERENT_OK, "none", NoIndex, afferent_float_buffer_capacity)
    /\ UNCHANGED <<heap, handle, fb_data, fb_capacity, mem, out_slot, particles,
                   watch, watch_val, created, sprite_log>>
    /\ UNCHANGED <<fontVars, gpuVars>>

\* afferent_float_buffer_data(buf)
FloatBufferData ==
    /\ Live
    /\ fb_ret' = Ret("data", AFFERENT_OK, "none", NoIndex, afferent_float_buffer_data)
    /\ UNCHANGED <<heap, handle, fb_data, fb_capacity, mem, out_slot, particles,
                   watch, watch_val, created, sprite_log>>
    /\ UNCHANGED <<fontVars, gpuVars>>

\* ------------------------------------------------------- text_render.c
\* a cleared GlyphInfo (calloc / memset 0)
NoGlyph ==
    [codepoint |-> 0, advance_x |-> 0, bearing_x |-> 0, bearing_y |-> 0,
     width |-> 0, height |-> 0, atlas_x |-> 0, atlas_y |-> 0, valid |-> 0]

\* what FT_Load_Char(face, codepoint, FT_LOAD_RENDER) leaves in face->glyph
\* for a glyph whose bitmap is w x h: the bitmap size, advance.x / 64.0f,
\* bitmap_left and bitmap_top
GlyphSlot(w, h) ==
    [width |-> w, rows |-> h, advance |-> Unit * (w + 1), left |-> w % 2, top |-> h]

GlyphSlots == {GlyphSlot(w, h) : w \in 0..MaxBitmapW, h \in 0..MaxBitmapH}

SlotRank(s) == s.width * (MaxBitmapH + 1) + s.rows

\* The faces: one slot per supported codepoint.  The code treats all
\* codepoints below MAX_GLYPHS alike, so the faces are taken with their
\* slots in non-decreasing order.
Faces ==
    {f \in [0..(MAX_GLYPHS - 1) -> GlyphSlots] :
        \A c \in 0..(MAX_GLYPHS - 2) : SlotRank(f[c]) <= SlotRank(f[c + 1])}

\* bitmap->buffer[y * pitch + x]: every pixel of a glyph's bitmap carries the
\* same non-zero value, different for each codepoint
Pixel(codepoint) == codepoint + 1

\* the atlas indices the copy loop writes for a w x h bitmap at (cx, cy)
CopyIndices(f, w, h) ==
    {(f.atlas_cursor_y + y) * f.atlas_width + (f.atlas_cursor_x + x) :
        y \in 0..(h - 1), x \in 0..(w - 1)}

\* the copy loop: atlas_data[atlas_idx] = bitmap->buffer[..]
CopyBitmap(f, w, h, codepoint) ==
    LET idx == CopyIndices(f, w, h) IN
    [f EXCEPT !.atlas_data = [i \in DOMAIN f.atlas_data |->
                                 IF i \in idx THEN Pixel(codepoint)
                                 ELSE f.atlas_data[i]],
              !.overrun = f.overrun \/ \E i \in idx : i \notin DOMAIN f.atlas_data]

\* bug: the wrap assigns the cursor row instead of advancing it
wrap_assigns_row(f, w) ==
    IF f.atlas_cursor_x + w + 1 > f.atlas_width
    THEN [f EXCEPT !.atlas_cursor_x = 1,
                   !.atlas_cursor_y = f.atlas_row_height + 1,
                   !.atlas_row_height = 0]
    ELSE f

\* the row wrap: when the bitmap does not fit in the rest of the row
MoveToNextRow(f, w) ==
    IF f.atlas_cursor_x + w + 1 > f.atlas_width
    THEN [f EXCEPT !.atlas_cursor_x = 1,
                   !.atlas_cursor_y = f.atlas_cursor_y + f.atlas_row_height + 1,
                   !.atlas_row_height = 0]
    ELSE f

StoreGlyphInfo(f, codepoint, slot) ==
    [f EXCEPT !.glyphs[codepoint] =
        [codepoint |-> codepoint, advance_x |-> slot.advance,
         bearing_x |-> Unit * slot.left, bearing_y |-> Unit * slot.top,
         width |-> slot.width, height |-> slot.rows,
         atlas_x |-> f.atlas_cursor_x, atlas_y |-> f.atlas_cursor_y, valid |-> 1]]

\* bug: the cursor advances by the bitmap width, without the padding column
cursor_without_padding(f, slot) ==
    [f EXCEPT !.atlas_cursor_x = f.atlas_cursor_x + slot.width,
              !.atlas_row_height = IF slot.rows > f.atlas_row_height THEN slot.rows
                                   ELSE f.atlas_row_height]

UpdateAtlasCursor(f, slot) ==
    [f EXCEPT !.atlas_cursor_x = f.atlas_cursor_x + slot.width + 1,
              !.atlas_row_height = IF slot.rows > f.atlas_row_height THEN slot.rows
                                   ELSE f.atlas_row_height]

Returned(f, result, reason) == [font |-> f, result |-> result, reason |-> reason]

\* bug: the bitmap is copied before the atlas is checked for room
rasterize_copies_before_check(f, codepoint, ft_error, slot) ==
    IF ft_error THEN Returned(f, NULL, "ft_error")
    ELSE LET f1 == MoveToNextRow(f, slot.width)
             f2 == CopyBitmap(f1, slot.width, slot.rows, codepoint)
         IN
         IF f1.atlas_cursor_y + slot.rows + 1 > f1.atlas_height
         THEN Returned(f2, NULL, "atlas_full")
         ELSE Returned(UpdateAtlasCursor(StoreGlyphInfo(f2, codepoint, slot), slot),
                       codepoint + 1, "new")

\* cache_glyph from FT_Load_Char on: load, find room, copy, store, advance.
\* ft_error: FT_Load_Char failed; slot: what it rendered otherwise.
RasterizeGlyph(f, codepoint, ft_error, slot) ==
    IF ft_error THEN Returned(f, NULL, "ft_error")
    ELSE LET f1 == MoveToNextRow(f, slot.width) IN
         IF f1.atlas_cursor_y + slot.rows + 1 > f1.atlas_height
         THEN Returned(f1, NULL, "atlas_full")
         ELSE LET f2 == CopyBitmap(f1, slot.width, slot.rows, codepoint)
                  f3 == StoreGlyphInfo(f2, codepoint, slot)
                  f4 == UpdateAtlasCursor(f3, slot)
              IN Returned(f4, codepoint + 1, "new")

\* bug: the valid flag is not consulted, the glyph is rasterized again
always_rasterize(f, codepoint, ft_error, slot) ==
    RasterizeGlyph(f, codepoint, ft_error, slot)

\* cache_glyph from the table lookup on: the cached entry, or a new one
LookupGlyph(f, codepoint, ft_error, slot) ==
    IF f.glyphs[codepoint].valid /= 0 THEN Returned(f, codepoint + 1, "cached")
    ELSE RasterizeGlyph(f, codepoint, ft_error, slot)

\* bug: codepoint > MAX_GLYPHS instead of >=; the entry one past the end of
\* the table is used as a table entry
ceiling_off_by_one(f, codepoint, ft_error, slot) ==
    IF codepoint > MAX_GLYPHS THEN Returned(f, NULL, "range")
    ELSE IF codepoint = MAX_GLYPHS
         THEN LookupGlyph([f EXCEPT !.glyphs = f.glyphs @@ (MAX_GLYPHS :> NoGlyph)],
                          codepoint, ft_error, slot)
         ELSE LookupGlyph(f, codepoint, ft_error, slot)

\* cache_glyph(font, codepoint): the font afterwards and the entry returned
\* (NULL, or codepoint + 1 standing for &font->glyphs[codepoint])
cache_glyph(f, codepoint, ft_error, slot) ==
    IF codepoint >= MAX_GLYPHS THEN Returned(f, NULL, "range")
    ELSE LookupGlyph(f, codepoint, ft_error, slot)

\* the font as afferent_font_load leaves it
LoadedFont ==
    [glyphs |-> [c \in 0..(MAX_GLYPHS - 1) |-> NoGlyph],
     atlas_data |-> [i \in 0..(ATLAS_WIDTH * ATLAS_HEIGHT - 1) |-> 0],
     overrun |-> FALSE,
     atlas_width |-> ATLAS_WIDTH,
     atlas_height |-> ATLAS_HEIGHT,
     atlas_cursor_x |-> 1,
     atlas_cursor_y |-> 1,
     atlas_row_height |-> 0,
     line_height |-> Unit * (MaxBitmapH + 2)]

\* the codepoints the callers hand to cache_glyph: (uint8_t)*p of a text
\* byte, which is below MAX_GLYPHS
Codepoints == 0..(MAX_GLYPHS - 1)

\* the rest of the uint32_t parameter of cache_glyph, which no caller passes
CodepointsAbove == MAX_GLYPHS..(MAX_GLYPHS + 1)

\* the cursor row up to which the model follows the font
MaxCursorY == ATLAS_HEIGHT + MaxRowsPast

\* one call cache_glyph(font, codepoint) and what it leaves behind
CallCacheGlyph(codepoint) ==
    /\ font.atlas_cursor_y <= MaxCursorY
    /\ \E ft_error \in BOOLEAN :
        LET slot == IF codepoint < MAX_GLYPHS THEN face[codepoint] ELSE GlyphSlot(0, 0)
            r == cache_glyph(font, codepoint, ft_error, slot)
        IN /\ font' = r.font
           /\ font_ret' = [op |-> "cache_glyph", codepoint |-> codepoint,
                           result |-> r.result, reason |-> r.reason,
                           rows |-> slot.rows, width |-> slot.width]
           /\ full_rows' = IF r.reason = "atlas_full"
                               /\ (full_rows = NoFailure \/ slot.rows < full_rows)
                            THEN slot.rows ELSE full_rows
    /\ UNCHANGED <<face, text_ret>>
    /\ UNCHANGED <<fbVars, gpuVars>>

\* cache_glyph as afferent_text_measure and afferent_text_generate_vertices
\* call it for a byte of the text
CacheGlyph == \E codepoint \in Codepoints : CallCacheGlyph(codepoint)

\* cache_glyph with an argument beyond the byte range: the function's own
\* range check, which the callers never reach
CacheGlyphAboveCeiling == \E codepoint \in CodepointsAbove : CallCacheGlyph(codepoint)

InitFont ==
    /\ face \in Faces
    /\ font = LoadedFont
    /\ font_ret = [op |-> "none", codepoint |-> 0, result |-> NULL, reason |-> "none",
                   rows |-> 0, width |-> 0]
    /\ full_rows = NoFailure
    /\ text_ret = NoText

\* the FloatBuffer part of the state while the font is followed
IdleFB ==
    /\ heap = {}
    /\ handle = NULL
    /\ fb_data = NULL
    /\ fb_capacity = 0
    /\ mem = <<>>
    /\ out_slot = NULL
    /\ particles = <<>>
    /\ fb_ret = NoRet
    /\ watch = NoIndex
    /\ watch_val = Unwritten
    /\ created = [capacity |-> 0, data |-> NULL]
    /\ sprite_log = <<>>

\* the font part of the state while the FloatBuffer is followed
IdleFont ==
    /\ face = [c \in 0..(MAX_GLYPHS - 1) |-> GlyphSlot(0, 0)]
    /\ font = LoadedFont
    /\ font_ret = [op |-> "none", codepoint |-> 0, result |-> NULL, reason |-> "none",
                   rows |-> 0, width |-> 0]
    /\ full_rows = NoFailure
    /\ text_ret = NoText

InitGlyphs == IdleFB /\ InitFont /\ IdleGpu

NextGlyphs == CacheGlyph \/ CacheGlyphAboveCeiling

SpecGlyphs == InitGlyphs /\ [][NextGlyphs]_vars

\* the state before any buffer is created
InitFB ==
    /\ heap = {}
    /\ handle = NULL
    /\ fb_data = NULL
    /\ fb_capacity = 0
    /\ mem = <<>>
    /\ out_slot = NULL
    /\ particles = <<>>
    /\ fb_ret = NoRet
    /\ watch = NoIndex
    /\ watch_val = Unwritten
    /\ created = [capacity |-> 0, data |-> NULL]
    /\ sprite_log = <<>>
    /\ IdleFont
    /\ IdleGpu

NextFB ==
    \/ CreateNullOut
    \/ lean_afferent_float_buffer_create
    \/ lean_afferent_float_buffer_destroy
    \/ lean_afferent_float_buffer_set
    \/ lean_afferent_float_buffer_get
    \/ FloatBufferCapacity
    \/ FloatBufferData

SpecFB == InitFB /\ [][NextFB]_vars

\* ---------------------------------------------- batched and bulk writes
\* a * b on doubles (fixed point)
DMul(a, b) == (a * b) \div Unit

\* the values of SpecVec: 0.0 and 1.0 as doubles a little above them
VecDoubles == {0, Unit + 1}

\* the value tuples handed to the batched writes: the two alternating ones
VecInputs(n) ==
    {[k \in 1..n |-> IF (k + a) % 2 = 0 THEN 0 ELSE Unit + 1] : a \in 0..1}

FloatEach(v) == [k \in 1..Len(v) |-> ToFloat(v[k])]

\* the capacity of the sprite scenario: 8 records of 5 floats
SpriteCapacity == SpriteRecords * Vec5Len
Scripted == fb_capacity = SpriteCapacity

\* capacities of SpecVec
VecCapacities == {Vec8Len + e : e \in 0..MaxExtra} \cup {SpriteCapacity}

\* particle arrays the host hands to the bulk writers: [x, y, vx, vy, hue] each
ParticleArrays ==
    { <<>>,
      <<1, 0, 2, -2, 1, 2, 2, -2, 2, 2>> }

\* lean_afferent_float_buffer_set on a buffer of SpecVec
VecSetSingle ==
    /\ Live /\ ~Scripted
    /\ \E index \in 0..(fb_capacity - 1) : \E value \in VecDoubles :
        /\ mem' = afferent_float_buffer_set(mem, index, ToFloat(value))
        /\ fb_ret' = Ret("set", AFFERENT_OK, "ok", index, 0)
    /\ UNCHANGED <<heap, handle, fb_data, fb_capacity, out_slot, particles,
                   watch, watch_val, created, sprite_log>>
    /\ UNCHANGED <<fontVars, gpuVars>>

\* bug: the batched write reallocates the array before writing
set_vec8_reallocates ==
    /\ Live /\ ~Scripted
    /\ \E index \in 0..(fb_capacity - Vec8Len) : \E v \in VecInputs(Vec8Len) :
        /\ mem' = afferent_float_buffer_set_vec8(mem, index, FloatEach(v))
        /\ fb_data' = fb_data + 1
        /\ heap' = (heap \ {fb_data}) \cup {fb_data + 1}
        /\ fb_ret' = Ret("set_vec8", AFFERENT_OK, "ok", index, FloatEach(v))
    /\ UNCHANGED <<handle, fb_capacity, out_slot, particles,
                   watch, watch_val, created, sprite_log>>
    /\ UNCHANGED <<fontVars, gpuVars>>

\* lean_afferent_float_buffer_set_vec8: the eight doubles cast to float
lean_afferent_float_buffer_set_vec8 ==
    /\ Live /\ ~Scripted
    /\ \E index \in 0..(fb_capacity - Vec8Len) : \E v \in VecInputs(Vec8Len) :
        /\ mem' = afferent_float_buffer_set_vec8(mem, index, FloatEach(v))
        /\ fb_ret' = Ret("set_vec8", AFFERENT_OK, "ok", index, FloatEach(v))
    /\ UNCHANGED <<heap, handle, fb_data, fb_capacity, out_slot, particles,
                   watch, watch_val, created, sprite_log>>
    /\ UNCHANGED <<fontVars, gpuVars>>

\* lean_afferent_float_buffer_set_vec5: the five doubles cast to float
lean_afferent_float_buffer_set_vec5 ==
    /\ Live /\ ~Scripted
    /\ \E index \in 0..(fb_capacity - Vec5Len) : \E v \in VecInputs(Vec5Len) :
        /\ mem' = afferent_float_buffer_set_vec5(mem, index, FloatEach(v))
        /\ fb_ret' = Ret("set_vec5", AFFERENT_OK, "ok", index, FloatEach(v))
    /\ UNCHANGED <<heap, handle, fb_data, fb_capacity, out_slot, particles,
                   watch, watch_val, created, sprite_log>>
    /\ UNCHANGED <<fontVars, gpuVars>>

\* The sprite scenario: the next of the 8 sprite records is written with one
\* batched 5-float write at offset 5 * (records written so far).
WriteSpriteRecord ==
    /\ Live /\ Scripted
    /\ Len(sprite_log) < SpriteCapacity
    /\ \E v \in VecInputs(Vec5Len) :
        /\ mem' = afferent_float_buffer_set_vec5(mem, Len(sprite_log), FloatEach(v))
        /\ sprite_log' = sprite_log \o FloatEach(v)
        /\ fb_ret' = Ret("set_vec5", AFFERENT_OK, "ok", Len(sprite_log), FloatEach(v))
    /\ UNCHANGED <<heap, handle, fb_data, fb_capacity, out_slot, particles,
                   watch, watch_val, created>>
    /\ UNCHANGED <<fontVars, gpuVars>>

\* the loop of write_sprites_from_particles, iterations i .. count - 1
RECURSIVE WriteSpritesLoop(_, _, _, _, _, _, _)
WriteSpritesLoop(m, src, i, count, h, r, a) ==
    IF i >= count THEN m
    ELSE LET base == i * ParticleStride
             x == ToFloat(src[base + 1])
             y == ToFloat(src[base + 2])
         IN WriteSpritesLoop(afferent_float_buffer_set_vec5(m, base, <<x, y, r, h, a>>),
                             src, i + 1, count, h, r, a)

\* lean_afferent_float_buffer_write_sprites_from_particles: the new buffer
\* contents
write_sprites_from_particles(m, capacity, arr, count, halfSize, rotation, alpha) ==
    LET arr_size == Len(arr)
        expected_size == count * ParticleStride
    IN IF count = 0 \/ arr_size < expected_size THEN m
       ELSE IF capacity < expected_size THEN m
       ELSE WriteSpritesLoop(m, arr, 0, count, ToFloat(halfSize), ToFloat(rotation),
                             ToFloat(alpha))

\* bug: the far wall clamps the position and keeps the velocity
bounce_keeps_velocity_at_far_wall(x, vx, r, w) ==
    IF x < r THEN <<r, -vx>>
    ELSE IF x > w - r THEN <<w - r, vx>>
    ELSE <<x, vx>>

\* one axis of the bouncing update: <<position, velocity>> after the clamp
Bounce(x, vx, r, w) ==
    IF x < r THEN <<r, -vx>>
    ELSE IF x > w - r THEN <<w - r, -vx>>
    ELSE <<x, vx>>

\* the particle record [x, y, vx, vy, hue] at base after one update
UpdatedParticle(p, base, dt, r, w, ht) ==
    LET bx == Bounce(p[base + 1] + DMul(p[base + 3], dt), p[base + 3], r, w)
        by == Bounce(p[base + 2] + DMul(p[base + 4], dt), p[base + 4], r, ht)
    IN <<bx[1], by[1], bx[2], by[2], p[base + 5]>>

\* the loop of update_bouncing_and_write_sprites: <<particles, buffer>>
RECURSIVE BouncingSpritesLoop(_, _, _, _, _, _, _, _)
BouncingSpritesLoop(p, out, i, count, dt, halfSize, w, ht) ==
    IF i >= count THEN <<p, out>>
    ELSE LET base == i * ParticleStride
             u == UpdatedParticle(p, base, dt, halfSize, w, ht)
             p1 == [k \in 1..Len(p) |->
                      IF k > base /\ k <= base + 4 THEN u[k - base] ELSE p[k]]
             o1 == Store(Store(Store(Store(Store(out,
                      base + 0, ToFloat(u[1])), base + 1, ToFloat(u[2])),
                      base + 2, 0), base + 3, ToFloat(halfSize)), base + 4, Unit)
         IN BouncingSpritesLoop(p1, o1, i + 1, count, dt, halfSize, w, ht)

\* bug: the capacity is compared with the size of the circle records
sprites_checks_circle_size(p, count, dt, halfSize, w, ht, buf_null, capacity, m) ==
    LET expected_size == count * ParticleStride
        out_needed == count * CircleStride
    IN
    IF count = 0 THEN <<p, m>>
    ELSE IF Len(p) < expected_size THEN <<p, m>>
    ELSE IF buf_null \/ capacity < out_needed THEN <<p, m>>
    ELSE BouncingSpritesLoop(p, m, 0, count, dt, halfSize, w, ht)

\* lean_afferent_particles_update_bouncing_and_write_sprites: <<particles, buffer>>
update_bouncing_and_write_sprites(p, count, dt, halfSize, w, ht, buf_null, capacity, m) ==
    LET expected_size == count * ParticleStride IN
    IF count = 0 THEN <<p, m>>
    ELSE IF Len(p) < expected_size THEN <<p, m>>
    ELSE IF buf_null \/ capacity < expected_size THEN <<p, m>>
    ELSE BouncingSpritesLoop(p, m, 0, count, dt, halfSize, w, ht)

\* the loop of update_bouncing_and_write_circles: <<particles, buffer>>
RECURSIVE BouncingCirclesLoop(_, _, _, _, _, _, _, _)
BouncingCirclesLoop(p, out, i, count, dt, radius, w, ht) ==
    IF i >= count THEN <<p, out>>
    ELSE LET base == i * ParticleStride
             o == i * CircleStride
             u == UpdatedParticle(p, base, dt, radius, w, ht)
             p1 == [k \in 1..Len(p) |->
                      IF k > base /\ k <= base + 4 THEN u[k - base] ELSE p[k]]
             o1 == Store(Store(Store(Store(out,
                      o + 0, ToFloat(u[1])), o + 1, ToFloat(u[2])),
                      o + 2, ToFloat(u[5])), o + 3, ToFloat(radius))
         IN BouncingCirclesLoop(p1, o1, i + 1, count, dt, radius, w, ht)

\* lean_afferent_particles_update_bouncing_and_write_circles: <<particles, buffer>>
update_bouncing_and_write_circles(p, count, dt, radius, w, ht, buf_null, capacity, m) ==
    LET expected_size == count * ParticleStride
        out_needed == count * CircleStride
    IN
    IF count = 0 THEN <<p, m>>
    ELSE IF Len(p) < expected_size THEN <<p, m>>
    ELSE IF buf_null \/ capacity < out_needed THEN <<p, m>>
    ELSE BouncingCirclesLoop(p, m, 0, count, dt, radius, w, ht)

WriteSpritesFromParticles ==
    /\ Live /\ ~Scripted
    /\ \E arr \in ParticleArrays : \E count \in 0..MaxCount :
        /\ mem' = write_sprites_from_particles(mem, afferent_float_buffer_capacity,
                      arr, count, 0, 0, Unit)
        /\ particles' = arr
        /\ fb_ret' = Ret("write_sprites", AFFERENT_OK, "ok", count, 0)
    /\ UNCHANGED <<heap, handle, fb_data, fb_capacity, out_slot,
                   watch, watch_val, created, sprite_log>>
    /\ UNCHANGED <<fontVars, gpuVars>>

UpdateBouncingAndWriteSprites ==
    /\ Live /\ ~Scripted
    /\ \E arr \in ParticleArrays : \E count \in 0..MaxCount :
        LET r == update_bouncing_and_write_sprites(arr, count, Unit, 0, Unit, Unit,
                     FALSE, afferent_float_buffer_capacity, mem)
        IN /\ particles' = r[1]
           /\ mem' = r[2]
           /\ fb_ret' = Ret("bouncing_sprites", AFFERENT_OK, "ok", count, 0)
    /\ UNCHANGED <<heap, handle, fb_data, fb_capacity, out_slot,
                   watch, watch_val, created, sprite_log>>
    /\ UNCHANGED <<fontVars, gpuVars>>

UpdateBouncingAndWriteCircles ==
    /\ Live /\ ~Scripted
    /\ \E arr \in ParticleArrays : \E count \in 0..MaxCount :
        LET r == update_bouncing_and_write_circles(arr, count, Unit, 0, Unit, Unit,
                     FALSE, afferent_float_buffer_capacity, mem)
        IN /\ particles' = r[1]
           /\ mem' = r[2]
           /\ fb_ret' = Ret("bouncing_circles", AFFERENT_OK, "ok", count, 0)
    /\ UNCHANGED <<heap, handle, fb_data, fb_capacity, out_slot,
                   watch, watch_val, created, sprite_log>>
    /\ UNCHANGED <<fontVars, gpuVars>>

\* the state after a successful create(capacity), capacity in VecCapacities
InitVec ==
    /\ \E capacity \in VecCapacities :
        LET r == afferent_float_buffer_create(capacity, FALSE, 1, 2) IN
        /\ heap = r.live
        /\ handle = r.out
        /\ out_slot = r.out
        /\ fb_data = r.data
        /\ fb_capacity = r.capacity
        /\ mem = r.floats
        /\ created = [capacity |-> capacity, data |-> r.data]
        /\ fb_ret = Ret("create", r.result, "ok", 0, capacity)
    /\ particles = <<>>
    /\ watch = NoIndex
    /\ watch_val = Unwritten
    /\ sprite_log = <<>>
    /\ IdleFont
    /\ IdleGpu

NextVec ==
    \/ VecSetSingle
    \/ lean_afferent_float_buffer_set_vec8
    \/ lean_afferent_float_buffer_set_vec5
    \/ WriteSpriteRecord
    \/ WriteSpritesFromParticles
    \/ UpdateBouncingAndWriteSprites
    \/ UpdateBouncingAndWriteCircles
    \/ lean_afferent_float_buffer_get
    \/ FloatBufferCapacity
    \/ FloatBufferData
    \/ lean_afferent_float_buffer_destroy

SpecVec == InitVec /\ [][NextVec]_vars

\* ------------------------------ text_render.c: measure, generate_vertices
\* float arithmetic of the number model: the result is rounded to a float
FMul(a, b) == ToFloat((a * b) \div Unit)
FDiv(a, b) == ToFloat((a * Unit) \div b)

\* the bytes of a C string: (uint8_t)*p of a byte before the terminating NUL
TextBytes == 1..(MAX_GLYPHS - 1)
Texts == UNION {[1..n -> TextBytes] : n \in 0..MaxTextLen}

\* bug: the glyph's bitmap width is added instead of its advance
advance_is_width(r, codepoint) ==
    IF r.result /= NULL THEN Unit * r.font.glyphs[codepoint].width ELSE 0

\* if (glyph) .. += glyph->advance_x, r being what cache_glyph returned
GlyphAdvance(r, codepoint) ==
    IF r.result /= NULL THEN r.font.glyphs[codepoint].advance_x ELSE 0

\* the while (*p) loop of afferent_text_measure from byte i on; errs: the
\* positions of the text at which FT_Load_Char fails when it is called
RECURSIVE MeasureLoop(_, _, _, _, _, _, _)
MeasureLoop(f, fc, text, errs, i, total_width, yields) ==
    IF i > Len(text)
    THEN [font |-> f, width |-> total_width, yields |-> yields]
    ELSE LET r == cache_glyph(f, text[i], i \in errs, fc[text[i]])
         IN MeasureLoop(r.font, fc, text, errs, i + 1,
                        total_width + GlyphAdvance(r, text[i]),
                        Append(yields, r.result))

\* afferent_text_measure(font, text, &width, &height)
afferent_text_measure(f, fc, font_null, text_null, text, errs) ==
    IF font_null \/ text_null
    THEN [font |-> f, width |-> 0, height |-> 0, yields |-> <<>>]
    ELSE LET m == MeasureLoop(f, fc, text, errs, 1, 0, <<>>)
         IN [font |-> m.font, width |-> m.width, height |-> f.line_height,
             yields |-> m.yields]

\* bug: a quad is emitted for every glyph, blank ones too
quad_for_every_glyph(r, codepoint) == r.result /= NULL

\* if (glyph && glyph->width > 0 && glyph->height > 0)
EmitsQuad(r, codepoint) ==
    /\ r.result /= NULL
    /\ r.font.glyphs[codepoint].width > 0
    /\ r.font.glyphs[codepoint].height > 0

\* pixel coordinates to normalized device coordinates
NdcX(px, screen_width) == FMul(FDiv(px, screen_width), 2 * Unit) - Unit
NdcY(py, screen_height) == Unit - FMul(FDiv(py, screen_height), 2 * Unit)

\* the four vertices of a glyph's quad, 8 floats each: position, uv, colour
QuadVertices(f, glyph, cursor_x, cursor_y, color, screen_width, screen_height) ==
    LET gx == cursor_x + glyph.bearing_x
        gy == cursor_y - glyph.bearing_y
        gw == Unit * glyph.width
        gh == Unit * glyph.height
        x0 == NdcX(gx, screen_width)
        y0 == NdcY(gy, screen_height)
        x1 == NdcX(gx + gw, screen_width)
        y1 == NdcY(gy + gh, screen_height)
        u0 == FDiv(Unit * glyph.atlas_x, Unit * f.atlas_width)
        v0 == FDiv(Unit * glyph.atlas_y, Unit * f.atlas_height)
        u1 == FDiv(Unit * (glyph.atlas_x + glyph.width), Unit * f.atlas_width)
        v1 == FDiv(Unit * (glyph.atlas_y + glyph.height), Unit * f.atlas_height)
    IN << <<x0, y0, u0, v0>> \o color,
          <<x1, y0, u1, v0>> \o color,
          <<x1, y1, u1, v1>> \o color,
          <<x0, y1, u0, v1>> \o color >>

\* the six indices of the two triangles of a quad
QuadIndices(base_vertex) ==
    <<base_vertex + 0, base_vertex + 1, base_vertex + 2,
      base_vertex + 0, base_vertex + 2, base_vertex + 3>>

\* one pass of the while (*p) loop of afferent_text_generate_vertices for
\* the byte c, r being what cache_glyph returned for it; acc: the pen, the
\* arrays and counts so far (and, as history, what cache_glyph yielded and
\* where the pen stood at each byte)
VerticesStep(acc, r, c, cursor_y, color, screen_width, screen_height) ==
    IF EmitsQuad(r, c)
    THEN [acc EXCEPT
            !.font = r.font,
            !.cursor_x = acc.cursor_x + GlyphAdvance(r, c),
            !.vertices = acc.vertices \o
                         QuadVertices(r.font, r.font.glyphs[c], acc.cursor_x, cursor_y,
                                      color, screen_width, screen_height),
            !.indices = acc.indices \o QuadIndices(acc.vertex_count),
            !.vertex_count = acc.vertex_count + 4,
            !.index_count = acc.index_count + 6,
            !.yields = Append(acc.yields, r.result),
            !.pens = Append(acc.pens, acc.cursor_x)]
    ELSE [acc EXCEPT
            !.font = r.font,
            !.cursor_x = acc.cursor_x + GlyphAdvance(r, c),
            !.yields = Append(acc.yields, r.result),
            !.pens = Append(acc.pens, acc.cursor_x)]

\* the while (*p) loop of afferent_text_generate_vertices from byte i on
RECURSIVE VerticesLoop(_, _, _, _, _, _, _, _, _)
VerticesLoop(acc, fc, text, errs, i, cursor_y, color, screen_width, screen_height) ==
    IF i > Len(text) THEN acc
    ELSE VerticesLoop(
            VerticesStep(acc, cache_glyph(acc.font, text[i], i \in errs, fc[text[i]]),
                         text[i], cursor_y, color, screen_width, screen_height),
            fc, text, errs, i + 1, cursor_y, color, screen_width, screen_height)

\* what a call leaves when it returns before the loop
NoVertices(f, ret, wrote_out) ==
    [font |-> f, ret |-> ret, wrote_out |-> wrote_out, cursor_x |-> 0,
     vertices |-> <<>>, indices |-> <<>>, vertex_count |-> 0, index_count |-> 0,
     yields |-> <<>>, pens |-> <<>>]

\* afferent_text_generate_vertices(font, text, x, y, r, g, b, a, screen_width,
\* screen_height, out_vertices, out_indices, out_vertex_count, out_index_count).
\* arg_null: font, text, out_vertices or out_indices is NULL; malloc_ok: both
\* allocations succeed.  The definition has no transform parameter.
afferent_text_generate_vertices(f, fc, arg_null, text, errs, x, y, color, screen_width, screen_height, malloc_ok) ==
    IF arg_null THEN NoVertices(f, 0, FALSE)
    ELSE IF Len(text) = 0 THEN NoVertices(f, 1, TRUE)
    ELSE IF ~malloc_ok THEN NoVertices(f, 0, FALSE)
    ELSE LET start == [NoVertices(f, 1, TRUE) EXCEPT !.cursor_x = x]
             done == VerticesLoop(start, fc, text, errs, 1, y, color,
                                  screen_width, screen_height)
         IN done

\* the transform of lean_afferent_text_render: the first six elements of the
\* host's array cast to float, or the identity when the array is shorter
IdentityTransform == <<Unit, 0, 0, Unit, 0, 0>>
ExtractTransform(arr) ==
    IF Len(arr) >= 6 THEN [i \in 1..6 |-> ToFloat(arr[i])] ELSE IdentityTransform

\* the positions of a text at which FT_Load_Char fails: none, or one
ErrorSets(text) == {{}} \cup {{i} : i \in 1..Len(text)}

\* the arguments that are pointers: all given, or one of them NULL
NullArgs == {<<FALSE, FALSE>>, <<TRUE, FALSE>>, <<FALSE, TRUE>>}

\* what the host passes as x and as transform array
Placements ==
    { [x |-> 0, arr |-> <<>>],
      [x |-> Unit + 1, arr |-> <<Unit, 0, 0, Unit, 0, 0>>],
      [x |-> 0, arr |-> <<Unit, 0, 0, Unit, 2 * Unit + 1, 0>>] }

\* the faces of SpecText: blank, one pixel wide or high, and largest bitmaps; NUL, which no
\* text contains, renders nothing
TextSlots ==
    {GlyphSlot(w, h) : w \in {0, 1}, h \in {0, 1}} \cup {GlyphSlot(MaxBitmapW, MaxBitmapH)}
TextFaces ==
    {f \in Faces : f[0] = GlyphSlot(0, 0) /\ \A c \in TextBytes : f[c] \in TextSlots}

TextColor == <<Unit, 0, 0, Unit>>

\* lean_afferent_text_measure / afferent_text_measure
TextMeasure ==
    /\ font.atlas_cursor_y <= MaxCursorY
    /\ \E nulls \in NullArgs :
       \E text \in (IF nulls = <<FALSE, FALSE>> THEN Texts ELSE {<<>>}) :
       \E errs \in ErrorSets(text) :
        LET font_null == nulls[1]
            text_null == nulls[2]
        IN \E m \in {afferent_text_measure(font, face, font_null, text_null, text, errs)} :
           /\ font' = m.font
           /\ text_ret' = [op |-> "measure", text |-> text,
                           font_null |-> font_null, text_null |-> text_null,
                           width |-> ToDouble(m.width), height |-> ToDouble(m.height),
                           yields |-> m.yields]
    /\ UNCHANGED <<face, font_ret, full_rows>>
    /\ UNCHANGED <<fbVars, gpuVars>>

\* lean_afferent_text_render down to afferent_text_generate_vertices: the
\* bridge extracts the transform and casts the numbers to float;
\* afferent_text_render hands them on as render.h declares the callee
TextRender ==
    /\ font.atlas_cursor_y <= MaxCursorY
    /\ \E early \in {"no", "null", "malloc"} :
       \E text \in (IF early = "no" THEN Texts ELSE {t \in Texts : Len(t) = 1}) :
       \E errs \in ErrorSets(text) :
       \E pl \in (IF early = "no" THEN Placements ELSE {[x |-> 0, arr |-> <<>>]}) :
        LET arg_null == (early = "null")
            malloc_ok == (early /= "malloc")
            x == pl.x
            transform == ExtractTransform(pl.arr)
        IN \E v \in {afferent_text_generate_vertices(font, face, arg_null, text, errs,
                          ToFloat(x), 0, TextColor, Unit, Unit, malloc_ok)} :
           /\ font' = v.font
           /\ text_ret' = [op |-> "render", text |-> text, x |-> ToFloat(x), y |-> 0,
                           transform |-> transform,
                           screen_width |-> Unit, screen_height |-> Unit,
                           ret |-> v.ret, wrote_out |-> v.wrote_out,
                           vertices |-> v.vertices, indices |-> v.indices,
                           vertex_count |-> v.vertex_count,
                           index_count |-> v.index_count,
                           cursor_x |-> v.cursor_x,
                           yields |-> v.yields, pens |-> v.pens]
    /\ UNCHANGED <<face, font_ret, full_rows>>
    /\ UNCHANGED <<fbVars, gpuVars>>

\* a loaded font whose face renders nothing for NUL, which no text contains
InitText ==
    /\ IdleFB
    /\ InitFont
    /\ face \in TextFaces
    /\ IdleGpu

NextText == TextMeasure \/ TextRender

SpecText == InitText /\ [][NextText]_vars

\* ------------------------------------------------- the buffer pool's calls
\* (buffer_pool.m is not among the sources; the calls follow the written
\* contract of acquire_buffer and reset_frame and the declarations of render.h)

fitting_ignores_in_use(slots, count, required_size) ==
    {i \in 1..count : slots[i].capacity >= required_size}

\* the slots of a pool that are free and large enough
FittingFree(slots, count, required_size) ==
    {i \in 1..count : ~slots[i].in_use /\ slots[i].capacity >= required_size}

\* the sizes the growth policy may give a new buffer: the size asked for, or
\* that size rounded up to an even one
AllocSizes(required_size) == {required_size, required_size + (required_size % 2)}

acquire_inserts_always(slots, count, required_size, is_vertex, fresh) ==
    IF FittingFree(slots, count, required_size) # {}
    THEN {[slots |-> [slots EXCEPT ![i].in_use = TRUE], count |-> count,
           buffer |-> slots[i].buffer, capacity |-> slots[i].capacity,
           slot |-> i, made |-> FALSE] :
            i \in FittingFree(slots, count, required_size)}
    ELSE {[slots |-> [j \in SlotIndices |->
                        IF j = count + 1
                        THEN [buffer |-> fresh, capacity |-> size, in_use |-> TRUE]
                        ELSE slots[j]],
           count |-> count + 1, buffer |-> fresh, capacity |-> size,
           slot |-> count + 1, made |-> TRUE] :
            size \in AllocSizes(required_size)}

\* scan for a free slot that fits; else a new buffer, inserted while the pool
\* has room.  The set of the possible outcomes: which fitting slot is taken
\* and how far a new buffer is rounded up are not fixed.
pool_acquire_buffer(slots, count, required_size, is_vertex, fresh) ==
    IF FittingFree(slots, count, required_size) # {}
    THEN {[slots |-> [slots EXCEPT ![i].in_use = TRUE], count |-> count,
           buffer |-> slots[i].buffer, capacity |-> slots[i].capacity,
           slot |-> i, made |-> FALSE] :
            i \in FittingFree(slots, count, required_size)}
    ELSE IF count < BUFFER_POOL_SIZE
    THEN {[slots |-> [slots EXCEPT ![count + 1] =
                        [buffer |-> fresh, capacity |-> size, in_use |-> TRUE]],
           count |-> count + 1, buffer |-> fresh, capacity |-> size,
           slot |-> count + 1, made |-> TRUE] :
            size \in AllocSizes(required_size)}
    ELSE {[slots |-> slots, count |-> count, buffer |-> fresh, capacity |-> size,
           slot |-> NoSlot, made |-> TRUE] :
            size \in AllocSizes(required_size)}

reset_skips_text_pools(pool) ==
    [p \in PoolNames |->
        IF p \in {"vertex_pool", "index_pool"}
        THEN [pool[p] EXCEPT !.slots = [i \in SlotIndices |->
                                        [pool[p].slots[i] EXCEPT !.in_use = FALSE]]]
        ELSE pool[p]]

\* clear the in_use flag of every slot of every pool
pool_reset_frame(pool) ==
    [p \in PoolNames |->
        [pool[p] EXCEPT !.slots = [i \in SlotIndices |->
                                    [pool[p].slots[i] EXCEPT !.in_use = FALSE]]]]

Requests == 1..MaxRequest

\* a draw call takes a buffer from one of the four pools
AcquireBuffer ==
    \E p \in PoolNames, required_size \in Requests, is_vertex \in BOOLEAN :
        /\ next_buffer <= MaxBuffers
        /\ \E r \in pool_acquire_buffer(g_buffer_pool[p].slots, g_buffer_pool[p].count,
                                        required_size, is_vertex, next_buffer) :
            /\ g_buffer_pool' = [g_buffer_pool EXCEPT
                                    ![p] = [slots |-> r.slots, count |-> r.count]]
            /\ next_buffer' = IF r.made THEN next_buffer + 1 ELSE next_buffer
            /\ pool_ret' = [op |-> "acquire", pool |-> p,
                            required_size |-> required_size,
                            buffer |-> r.buffer, capacity |-> r.capacity,
                            slot |-> r.slot, made |-> r.made]
            /\ frame_returns' =
                    IF r.slot \in SlotIndices
                    THEN [frame_returns EXCEPT ![p][r.slot] = @ + 1]
                    ELSE frame_returns
        /\ UNCHANGED <<fbVars, fontVars, rendVars, drawVars, auxVars>>

\* the frame boundary
ResetFrame ==
    /\ g_buffer_pool' = pool_reset_frame(g_buffer_pool)
    /\ pool_ret' = [op |-> "reset"]
    /\ frame_returns' = [p \in PoolNames |-> [i \in SlotIndices |-> 0]]
    /\ UNCHANGED next_buffer
    /\ UNCHANGED <<fbVars, fontVars, rendVars, drawVars, auxVars>>

InitPool == IdleFB /\ IdleFont /\ IdleGpu

NextPool == AcquireBuffer \/ ResetFrame

SpecPool == InitPool /\ [][NextPool]_vars

\* ------------------------------------------- the renderer's frame lifecycle
\* (the renderer's implementation is not among the sources; the native calls
\* follow the written state machine and the fields of struct AfferentRenderer)

Results == {AFFERENT_OK, "AFFERENT_ERROR_INIT_FAILED", "AFFERENT_ERROR_WINDOW_FAILED",
            "AFFERENT_ERROR_DEVICE_FAILED", "AFFERENT_ERROR_PIPELINE_FAILED",
            AFFERENT_ERROR_BUFFER_FAILED, "AFFERENT_ERROR_FONT_FAILED",
            "AFFERENT_ERROR_TEXT_FAILED"}

\* the pipeline variants built for a render pass with and without MSAA
Variant(msaa) == IF msaa THEN "MSAA" ELSE "NoMSAA"

\* the active pipeline pointers
ActivePipelines(r) == <<r.pipelineState, r.textPipelineState, r.spritePipelineState>>

\* the lifecycle state a renderer is in
LifecycleState(r) ==
    IF ~r.created THEN "Uninitialized"
    ELSE IF r.currentEncoder # NULL THEN "Frame-in-progress"
    ELSE "Ready"

\* pipelines built, no frame open
afferent_renderer_create(result, msaa, active) ==
    IF result # AFFERENT_OK
    THEN [result |-> result, out |-> NULL, renderer |-> NoRenderer]
    ELSE [result |-> AFFERENT_OK, out |-> 1,
          renderer |-> [created |-> TRUE, msaaEnabled |-> msaa,
                        pipelineState |-> Variant(active),
                        textPipelineState |-> Variant(active),
                        spritePipelineState |-> Variant(active),
                        currentCommandBuffer |-> NULL, currentEncoder |-> NULL,
                        currentDrawable |-> NULL]]

\* on success: the pipelines of the toggle's variant become the active ones
\* and the frame's drawable, command buffer and encoder are taken; on
\* failure: nothing
afferent_renderer_begin_frame(r, result) ==
    IF result # AFFERENT_OK THEN r
    ELSE [r EXCEPT !.pipelineState = Variant(r.msaaEnabled),
                   !.textPipelineState = Variant(r.msaaEnabled),
                   !.spritePipelineState = Variant(r.msaaEnabled),
                   !.currentCommandBuffer = 1, !.currentEncoder = 1,
                   !.currentDrawable = 1]

end_frame_keeps_encoder(r) ==
    [r EXCEPT !.currentCommandBuffer = NULL, !.currentDrawable = NULL]

\* submit: the frame's objects are given up
afferent_renderer_end_frame(r) ==
    [r EXCEPT !.currentCommandBuffer = NULL, !.currentEncoder = NULL,
              !.currentDrawable = NULL]

set_msaa_swaps_pipelines(r, enabled) ==
    [r EXCEPT !.msaaEnabled = enabled,
              !.pipelineState = Variant(enabled),
              !.textPipelineState = Variant(enabled),
              !.spritePipelineState = Variant(enabled)]

\* the toggle alone
afferent_renderer_set_msaa_enabled(r, enabled) ==
    [r EXCEPT !.msaaEnabled = enabled]

report_raises_on_failure(result) ==
    IF result # AFFERENT_OK
    THEN [io |-> "error", value |-> FALSE]
    ELSE [io |-> "ok", value |-> TRUE]

\* what lean_afferent_renderer_begin_frame hands to the host
BeginFrameReport(result) ==
    IF result # AFFERENT_OK
    THEN [io |-> "ok", value |-> FALSE]
    ELSE [io |-> "ok", value |-> TRUE]

\* uint8_t values the host passes for a Bool
EnabledBytes == 0..2

\* clear colours the host passes: red and alpha vary
ClearColors == {<<r, 0, 0, a>> : r \in DoubleVals, a \in DoubleVals}

lean_afferent_renderer_create ==
    /\ renderer_obj = NULL
    /\ \E result \in Results, msaa \in BOOLEAN, active \in BOOLEAN :
        LET c == afferent_renderer_create(result, msaa, active) IN
        /\ renderer' = c.renderer
        /\ renderer_obj' = c.out
        /\ rend_ret' = [op |-> "create", result |-> result,
                        io |-> IF result # AFFERENT_OK THEN "error" ELSE "ok"]
    /\ UNCHANGED frames_open
    /\ UNCHANGED <<fbVars, fontVars, poolVars, drawVars, auxVars>>

lean_afferent_renderer_begin_frame ==
    /\ renderer_obj # NULL
    /\ LifecycleState(renderer) = "Ready"
    /\ \E rgba \in ClearColors, result \in Results :
        /\ renderer' = afferent_renderer_begin_frame(renderer, result)
        /\ rend_ret' = [op |-> "begin_frame", result |-> result,
                        clear |-> <<ToFloat(rgba[1]), ToFloat(rgba[2]),
                                    ToFloat(rgba[3]), ToFloat(rgba[4])>>,
                        io |-> BeginFrameReport(result).io,
                        value |-> BeginFrameReport(result).value]
        /\ frames_open' = IF result = AFFERENT_OK THEN frames_open + 1 ELSE frames_open
    /\ UNCHANGED renderer_obj
    /\ UNCHANGED <<fbVars, fontVars, poolVars, drawVars, auxVars>>

lean_afferent_renderer_set_msaa_enabled ==
    /\ renderer_obj # NULL
    /\ \E enabled \in EnabledBytes :
        /\ renderer' = afferent_renderer_set_msaa_enabled(renderer, enabled # 0)
        /\ rend_ret' = [op |-> "set_msaa_enabled", enabled |-> enabled, io |-> "ok"]
    /\ UNCHANGED <<renderer_obj, frames_open>>
    /\ UNCHANGED <<fbVars, fontVars, poolVars, drawVars, auxVars>>

lean_afferent_renderer_end_frame ==
    /\ renderer_obj # NULL
    /\ LifecycleState(renderer) = "Frame-in-progress"
    /\ renderer' = afferent_renderer_end_frame(renderer)
    /\ rend_ret' = [op |-> "end_frame", io |-> "ok"]
    /\ frames_open' = frames_open - 1
    /\ UNCHANGED renderer_obj
    /\ UNCHANGED <<fbVars, fontVars, poolVars, drawVars, auxVars>>

InitRenderer == IdleFB /\ IdleFont /\ IdleGpu

NextRenderer ==
    \/ lean_afferent_renderer_create
    \/ lean_afferent_renderer_begin_frame
    \/ lean_afferent_renderer_set_msaa_enabled
    \/ lean_afferent_renderer_end_frame

SpecRenderer == InitRenderer /\ [][NextRenderer]_vars

\* ---------------------------------------------- lean_bridge.c: draw calls
\* An instance array is followed by its length only; the time, canvas size and
\* texture arguments are handed on to the native function as they are and are
\* left out.  The staging buffer's allocation is not counted in heap.

InstancedFns == {"draw_instanced_rects", "draw_instanced_triangles",
                 "draw_instanced_circles"}
DynamicFns == {"draw_dynamic_circles", "draw_dynamic_rects", "draw_dynamic_triangles",
               "draw_sprites"}
BufferFns == {"draw_dynamic_circles", "draw_sprites_buffer",
              "draw_sprites_instance_buffer"}

\* floats per instance of each native draw function
Stride(fn) ==
    CASE fn \in InstancedFns -> 8
      [] fn = "draw_dynamic_circles" -> CircleStride
      [] OTHER -> 5

\* the native draw function fn was called with count and an array of floats
NativeDraw(fn, count, floats) == [fn |-> fn, count |-> count, floats |-> floats]

\* bug: the capacity is recorded whether or not malloc gave a buffer
grow_records_capacity_unchecked(fn, arr_size, instance_count, buffer, capacity, malloc_ok) ==
    LET expected_size == instance_count * 8
        grows == arr_size > capacity
        buffer1 == IF grows THEN (IF malloc_ok THEN 1 ELSE NULL) ELSE buffer
        capacity1 == IF grows THEN arr_size ELSE capacity
    IN
    IF arr_size < expected_size \/ instance_count = 0
    THEN [io |-> "ok", native |-> NoCall, buffer |-> buffer, capacity |-> capacity,
          grew |-> FALSE, copied |-> FALSE]
    ELSE IF buffer1 = NULL
    THEN [io |-> "ok", native |-> NoCall, buffer |-> buffer1, capacity |-> capacity1,
          grew |-> grows, copied |-> FALSE]
    ELSE [io |-> "ok", native |-> NativeDraw(fn, instance_count, arr_size),
          buffer |-> buffer1, capacity |-> capacity1, grew |-> grows, copied |-> TRUE]

\* lean_afferent_renderer_draw_instanced_rects / _triangles / _circles: the
\* size check, the staging buffer grown to arr_size, the copy, the draw.
\* grew: the staging buffer was freed and allocated anew; copied: the call
\* reached its copy loop.
DrawInstancedArray(fn, arr_size, instance_count, buffer, capacity, malloc_ok) ==
    LET expected_size == instance_count * 8
        grows == arr_size > capacity
        buffer1 == IF grows THEN (IF malloc_ok THEN 1 ELSE NULL) ELSE buffer
        capacity1 == IF grows THEN (IF buffer1 # NULL THEN arr_size ELSE 0) ELSE capacity
    IN
    IF arr_size < expected_size \/ instance_count = 0
    THEN [io |-> "ok", native |-> NoCall, buffer |-> buffer, capacity |-> capacity,
          grew |-> FALSE, copied |-> FALSE]
    ELSE IF buffer1 = NULL
    THEN [io |-> "ok", native |-> NoCall, buffer |-> buffer1, capacity |-> capacity1,
          grew |-> grows, copied |-> FALSE]
    ELSE [io |-> "ok", native |-> NativeDraw(fn, instance_count, arr_size),
          buffer |-> buffer1, capacity |-> capacity1, grew |-> grows, copied |-> TRUE]

\* lean_afferent_renderer_draw_dynamic_circles / _rects / _triangles and
\* lean_afferent_renderer_draw_sprites: malloc, copy, draw, free; the result
\* of malloc is not looked at, so the copy of a non-empty array writes through
\* NULL when malloc failed
DrawDynamicArray(fn, arr_size, count, malloc_ok) ==
    IF ~malloc_ok /\ arr_size > 0
    THEN [io |-> "crash", native |-> NoCall]
    ELSE [io |-> "ok", native |-> NativeDraw(fn, count, arr_size)]

\* the _buffer functions: the FloatBuffer's data pointer and the count go to
\* the native function as they are
DrawFromBuffer(fn, floats, count) ==
    [io |-> "ok", native |-> NativeDraw(fn, count, floats)]

DrawLens == 0..MaxDrawLen
DrawCounts == 0..MaxDrawCount

DrawRet(path, fn, len, count, r) ==
    [op |-> path, fn |-> fn, len |-> len, count |-> count, io |-> r.io,
     native |-> r.native]

lean_afferent_renderer_draw_instanced ==
    /\ \E fn \in InstancedFns, arr_size \in DrawLens, instance_count \in DrawCounts,
          malloc_ok \in BOOLEAN :
        \E r \in {DrawInstancedArray(fn, arr_size, instance_count, g_instance_buffer,
                                      g_instance_buffer_capacity, malloc_ok)} :
            /\ g_instance_buffer' = r.buffer
            /\ g_instance_buffer_capacity' = r.capacity
            /\ draw_ret' = DrawRet("array", fn, arr_size, instance_count, r) @@
                            [grew |-> r.grew, copied |-> r.copied]
    /\ UNCHANGED <<fbVars, fontVars, poolVars, rendVars, auxVars>>

lean_afferent_renderer_draw_instanced_buffer ==
    /\ handle # NULL
    /\ \E fn \in InstancedFns, instance_count \in DrawCounts :
        draw_ret' = DrawRet("buffer", fn, Len(mem), instance_count,
                            DrawFromBuffer(fn, Len(mem), instance_count))
    /\ UNCHANGED <<g_instance_buffer, g_instance_buffer_capacity>>
    /\ UNCHANGED <<fbVars, fontVars, poolVars, rendVars, auxVars>>

lean_afferent_renderer_draw_dynamic ==
    /\ \E fn \in DynamicFns, arr_size \in DrawLens, count \in DrawCounts,
          malloc_ok \in BOOLEAN :
        draw_ret' = DrawRet("array", fn, arr_size, count,
                            DrawDynamicArray(fn, arr_size, count, malloc_ok))
    /\ UNCHANGED <<g_instance_buffer, g_instance_buffer_capacity>>
    /\ UNCHANGED <<fbVars, fontVars, poolVars, rendVars, auxVars>>

lean_afferent_renderer_draw_dynamic_buffer ==
    /\ handle # NULL
    /\ \E fn \in BufferFns, count \in DrawCounts :
        draw_ret' = DrawRet("buffer", fn, Len(mem), count,
                            DrawFromBuffer(fn, Len(mem), count))
    /\ UNCHANGED <<g_instance_buffer, g_instance_buffer_capacity>>
    /\ UNCHANGED <<fbVars, fontVars, poolVars, rendVars, auxVars>>

\* a frame is in progress and a FloatBuffer of 0..MaxDrawLen floats exists
InitDraw ==
    /\ \E capacity \in DrawLens :
        LET r == afferent_float_buffer_create(capacity, FALSE, 1, 2) IN
        /\ heap = r.live
        /\ handle = r.out
        /\ out_slot = r.out
        /\ fb_data = r.data
        /\ fb_capacity = r.capacity
        /\ mem = r.floats
        /\ created = [capacity |-> capacity, data |-> r.data]
        /\ fb_ret = Ret("create", r.result, "ok", 0, capacity)
    /\ particles = <<>>
    /\ watch = NoIndex
    /\ watch_val = Unwritten
    /\ sprite_log = <<>>
    /\ IdleFont
    /\ IdlePool
    /\ renderer_obj = 1
    /\ renderer = afferent_renderer_begin_frame(
                        afferent_renderer_create(AFFERENT_OK, FALSE, FALSE).renderer,
                        AFFERENT_OK)
    /\ rend_ret = [op |-> "begin_frame", result |-> AFFERENT_OK,
                   clear |-> <<0, 0, 0, 0>>, io |-> "ok", value |-> TRUE]
    /\ frames_open = 1
    /\ IdleDraw
    /\ IdleAux

NextDraw ==
    \/ lean_afferent_renderer_draw_instanced
    \/ lean_afferent_renderer_draw_instanced_buffer
    \/ lean_afferent_renderer_draw_dynamic
    \/ lean_afferent_renderer_draw_dynamic_buffer

SpecDraw == InitDraw /\ [][NextDraw]_vars

\* ------------------------------------- lean_bridge.c: buffers from arrays
\* An array is followed by its length only.  native: the call of the native
\* creation function, with the count it was given and the code it returned.

vertex_checks_empty_only(arr_size, malloc_ok, result) ==
    IF arr_size = 0
    THEN [io |-> "error", msg |-> "Empty vertex array", native |-> NoCall, handle |-> NULL]
    ELSE [io |-> IF result # AFFERENT_OK THEN "error" ELSE "ok",
          msg |-> IF result # AFFERENT_OK THEN "Failed to create vertex buffer" ELSE "",
          native |-> [fn |-> "afferent_buffer_create_vertex", count |-> arr_size \div 6,
                     result |-> result],
          handle |-> IF result # AFFERENT_OK THEN NULL ELSE 1]

\* lean_afferent_buffer_create_vertex: vertex_count = arr_size / 6
BufferCreateVertex(arr_size, malloc_ok, result) ==
    LET vertex_count == arr_size \div 6 IN
    IF vertex_count = 0
    THEN [io |-> "error", msg |-> "Empty vertex array", native |-> NoCall, handle |-> NULL]
    ELSE IF ~malloc_ok
    THEN [io |-> "error", msg |-> "Failed to allocate vertex memory", native |-> NoCall,
          handle |-> NULL]
    ELSE [io |-> IF result # AFFERENT_OK THEN "error" ELSE "ok",
          msg |-> IF result # AFFERENT_OK THEN "Failed to create vertex buffer" ELSE "",
          native |-> [fn |-> "afferent_buffer_create_vertex", count |-> vertex_count,
                     result |-> result],
          handle |-> IF result # AFFERENT_OK THEN NULL ELSE 1]

\* lean_afferent_buffer_create_index
BufferCreateIndex(count, malloc_ok, result) ==
    IF count = 0
    THEN [io |-> "error", msg |-> "Empty index array", native |-> NoCall, handle |-> NULL]
    ELSE IF ~malloc_ok
    THEN [io |-> "error", msg |-> "Failed to allocate index memory", native |-> NoCall,
          handle |-> NULL]
    ELSE [io |-> IF result # AFFERENT_OK THEN "error" ELSE "ok",
          msg |-> IF result # AFFERENT_OK THEN "Failed to create index buffer" ELSE "",
          native |-> [fn |-> "afferent_buffer_create_index", count |-> count,
                     result |-> result],
          handle |-> IF result # AFFERENT_OK THEN NULL ELSE 1]

lean_afferent_buffer_create_vertex ==
    /\ \E arr_size \in 0..MaxBufferLen, malloc_ok \in BOOLEAN, result \in Results :
        host_ret' = [op |-> "create_vertex", len |-> arr_size,
                     r |-> BufferCreateVertex(arr_size, malloc_ok, result)]
    /\ UNCHANGED handles
    /\ UNCHANGED exceptHandles

lean_afferent_buffer_create_index ==
    /\ \E count \in 0..MaxBufferLen, malloc_ok \in BOOLEAN, result \in Results :
        host_ret' = [op |-> "create_index", len |-> count,
                     r |-> BufferCreateIndex(count, malloc_ok, result)]
    /\ UNCHANGED handles
    /\ UNCHANGED exceptHandles

InitBuffers == IdleFB /\ IdleFont /\ IdleGpu

NextBuffers == lean_afferent_buffer_create_vertex \/ lean_afferent_buffer_create_index

SpecBuffers == InitBuffers /\ [][NextBuffers]_vars

\* ------------------------------------ lean_bridge.c: handles and finalizers
\* A handle h has the host's object (obj: "held", or "collected" once the
\* host's collector ran its finalizer), the native resource (native: "live" or
\* "freed") and two counters of its history: destroy calls and releases of
\* the native resource.

\* lean_afferent_*_create, on success: lean_alloc_external around the pointer
HandleCreated == [obj |-> "held", native |-> "live", destroys |-> 0, frees |-> 0]

finalizer_frees(h) ==
    [h EXCEPT !.obj = "collected", !.native = "freed", !.frees = @ + 1]

\* window_finalizer, renderer_finalizer, buffer_finalizer, font_finalizer,
\* float_buffer_finalizer, texture_finalizer: the body is empty
Finalizer(h) ==
    [h EXCEPT !.obj = "collected"]

\* lean_afferent_*_destroy: the native destroy function on the pointer of the
\* object.  It releases a live resource; on a freed one it is a second free
\* of the same pointer, whose outcome is not defined: the release may or
\* may not be carried out again.
Destroy(h) ==
    IF h.native = "live"
    THEN {[h EXCEPT !.native = "freed", !.destroys = @ + 1, !.frees = @ + 1]}
    ELSE {[h EXCEPT !.destroys = @ + 1, !.frees = @ + n] : n \in {0, 1}}

HandleCreate ==
    /\ \E k \in HandleKinds :
        /\ handles[k].obj = "none"
        /\ Cardinality({j \in HandleKinds : handles[j].obj # "none"}) < MaxLive
        /\ handles' = [handles EXCEPT ![k] = HandleCreated]
    /\ UNCHANGED host_ret
    /\ UNCHANGED exceptHandles

HandleDestroy ==
    /\ \E k \in HandleKinds :
        /\ handles[k].obj = "held"
        /\ handles[k].destroys < MaxDestroys
        /\ \E h \in Destroy(handles[k]) : handles' = [handles EXCEPT ![k] = h]
    /\ UNCHANGED host_ret
    /\ UNCHANGED exceptHandles

\* the host's collector drops the object and runs the finalizer of its class
HandleFinalize ==
    /\ \E k \in HandleKinds :
        /\ handles[k].obj = "held"
        /\ handles' = [handles EXCEPT ![k] = Finalizer(handles[k])]
    /\ UNCHANGED host_ret
    /\ UNCHANGED exceptHandles

InitHandles == IdleFB /\ IdleFont /\ IdleGpu

NextHandles == HandleCreate \/ HandleDestroy \/ HandleFinalize

SpecHandles == InitHandles /\ [][NextHandles]_vars

\* --------------------------------- text_render.c: the FreeType library
\* The library handle is NULL or 1, the one library FT_Init_FreeType makes.
\* ft_ok: FT_Init_FreeType succeeds; when it fails it leaves the handle as
\* it was.  A call gives [library, count, result, done], done: the call
\* released the library with FT_Done_FreeType.
AFFERENT_ERROR_FONT_FAILED == "AFFERENT_ERROR_FONT_FAILED"

afferent_text_init(library, count, ft_ok) ==
    IF count > 0
    THEN [library |-> library, count |-> count + 1, result |-> AFFERENT_OK, done |-> FALSE]
    ELSE IF ~ft_ok
    THEN [library |-> library, count |-> count, result |-> AFFERENT_ERROR_FONT_FAILED,
          done |-> FALSE]
    ELSE [library |-> 1, count |-> 1, result |-> AFFERENT_OK, done |-> FALSE]

shutdown_releases_at_once(library, count) ==
    IF count > 0
    THEN [library |-> NULL, count |-> count - 1, result |-> AFFERENT_OK,
          done |-> library # NULL]
    ELSE [library |-> library, count |-> count, result |-> AFFERENT_OK, done |-> FALSE]

afferent_text_shutdown(library, count) ==
    IF count > 0
    THEN IF count - 1 = 0 /\ library # NULL
         THEN [library |-> NULL, count |-> count - 1, result |-> AFFERENT_OK, done |-> TRUE]
         ELSE [library |-> library, count |-> count - 1, result |-> AFFERENT_OK,
               done |-> FALSE]
    ELSE [library |-> library, count |-> count, result |-> AFFERENT_OK, done |-> FALSE]

\* afferent_font_load: the steps that can fail, in the order of the code
FontLoadSteps == {"none", "calloc", "FT_New_Face", "FT_Set_Pixel_Sizes", "atlas"}

\* afferent_font_load up to *out_font = font.  fails: the step that fails.
\* font: a font was made (its face is open); step: the step that failed.
afferent_font_load(library, count, ft_ok, fails) ==
    LET init == IF library = NULL
                THEN afferent_text_init(library, count, ft_ok)
                ELSE [library |-> library, count |-> count, result |-> AFFERENT_OK,
                      done |-> FALSE]
    IN  IF init.result # AFFERENT_OK
        THEN init @@ [font |-> FALSE, step |-> "afferent_text_init"]
        ELSE IF fails = "none"
        THEN init @@ [font |-> TRUE, step |-> "none"]
        ELSE [init EXCEPT !.result = AFFERENT_ERROR_FONT_FAILED] @@
             [font |-> FALSE, step |-> fails]

\* what a bridge function that checks the result gives the host
Checked(result) == IF result # AFFERENT_OK THEN "error" ELSE "ok"

\* afferent_initialize (lean_bridge.c): afferent_text_init(); and success
afferent_initialize ==
    /\ g_ft_init_count < MaxInit
    /\ \E ft_ok \in BOOLEAN :
        \E r \in {afferent_text_init(g_ft_library, g_ft_init_count, ft_ok)} :
            /\ g_ft_library' = r.library
            /\ g_ft_init_count' = r.count
            /\ ft_ret' = [op |-> "afferent_initialize", bridge |-> TRUE, result |-> r.result,
                           io |-> "ok", done |-> r.done, size |-> 0,
                           step |-> "none"]
    /\ UNCHANGED ft_faces
    /\ UNCHANGED exceptFT

text_init ==
    /\ g_ft_init_count < MaxInit
    /\ \E ft_ok \in BOOLEAN :
        \E r \in {afferent_text_init(g_ft_library, g_ft_init_count, ft_ok)} :
            /\ g_ft_library' = r.library
            /\ g_ft_init_count' = r.count
            /\ ft_ret' = [op |-> "text_init", bridge |-> FALSE, result |-> r.result,
                           io |-> Checked(r.result), done |-> r.done, size |-> 0,
                           step |-> "none"]
    /\ UNCHANGED ft_faces
    /\ UNCHANGED exceptFT

text_shutdown ==
    /\ \E r \in {afferent_text_shutdown(g_ft_library, g_ft_init_count)} :
        /\ g_ft_library' = r.library
        /\ g_ft_init_count' = r.count
        /\ ft_ret' = [op |-> "text_shutdown", bridge |-> FALSE, result |-> r.result,
                       io |-> "ok", done |-> r.done, size |-> 0,
                           step |-> "none"]
    /\ UNCHANGED ft_faces
    /\ UNCHANGED exceptFT

\* lean_afferent_font_load: afferent_font_load, an IO error unless it gave OK
lean_afferent_font_load ==
    /\ ft_faces < MaxFonts
    /\ \E size \in 1..MaxFontSize, ft_ok \in BOOLEAN, fails \in FontLoadSteps :
        \E r \in {afferent_font_load(g_ft_library, g_ft_init_count, ft_ok, fails)} :
            /\ g_ft_library' = r.library
            /\ g_ft_init_count' = r.count
            /\ ft_faces' = IF r.font THEN ft_faces + 1 ELSE ft_faces
            /\ ft_ret' = [op |-> "font_load", bridge |-> TRUE, result |-> r.result,
                           io |-> Checked(r.result), done |-> r.done, size |-> size,
                           step |-> IF r.result # AFFERENT_OK THEN r.step ELSE "none"]
    /\ UNCHANGED exceptFT

\* lean_afferent_font_destroy: FT_Done_Face and the frees of afferent_font_destroy
lean_afferent_font_destroy ==
    /\ ft_faces > 0
    /\ ft_faces' = ft_faces - 1
    /\ ft_ret' = [op |-> "font_destroy", bridge |-> TRUE, result |-> AFFERENT_OK,
                   io |-> "ok", done |-> FALSE, size |-> 0, step |-> "none"]
    /\ UNCHANGED <<g_ft_library, g_ft_init_count>>
    /\ UNCHANGED exceptFT

InitFT == IdleFB /\ IdleFont /\ IdleGpu

NextFT ==
    \/ afferent_initialize
    \/ text_init
    \/ text_shutdown
    \/ lean_afferent_font_load
    \/ lean_afferent_font_destroy

SpecFT == InitFT /\ [][NextFT]_vars

\* ------------------------- lean_bridge.c: the bulk writers, call by call
\* The host keeps one particle array (particles) and hands it to every call;
\* the fused updates give it back updated.  The simulation parameters (sim)
\* are drawn at the start.  What a call writes does not depend on what the
\* buffer held, so a call is run on a buffer of marks that is longer than
\* the FloatBuffer: the elements that are no longer marks are the indices the
\* call wrote, within the capacity or past it.

\* the particles [x, y, vx, vy, hue] of the host: two positions and three
\* velocities on the x axis
BulkParticles == {<<x, 1, vx, Unit, 1>> : x \in {1, 5}, vx \in {0 - Unit, 0, 3}}

\* arrays of 0, 1 and 2 particles, and one of 7 values
BulkArrays ==
    {<<>>, <<1, 1, 0, Unit, 1, 0, 0>>} \cup BulkParticles
        \cup {p \o <<5, 0, 0 - 3, 0 - Unit, Unit>> : p \in BulkParticles}

BulkCapacities == {0, CircleStride, ParticleStride, 2 * CircleStride, 2 * ParticleStride}

Sims ==
    [dt : {0, Unit}, r : {0, Unit}, w : {Unit, 3 * Unit}, ht : {2 * Unit}]

\* a buffer of n marks
Marks(n) == [i \in 1..n |-> Unwritten]
\* the indices a call wrote, m being what it made of the marks
Written(m) == {i - 1 : i \in {k \in 1..Len(m) : m[k] # Unwritten}}
\* the FloatBuffer after the call
Overlay(old, m) == [i \in 1..Len(old) |-> IF m[i] # Unwritten THEN m[i] ELSE old[i]]

BulkRet(op, count, m) ==
    [op |-> op, result |-> AFFERENT_OK, io |-> "ok", index |-> count, value |-> 0,
     count |-> count, written |-> Written(m)]

lean_afferent_float_buffer_write_sprites_from_particles ==
    /\ Live
    /\ \E count \in 0..MaxCount :
        \E m \in {write_sprites_from_particles(
                      Marks(fb_capacity + MaxCount * ParticleStride),
                      afferent_float_buffer_capacity, particles, count, sim.r, 0, Unit)} :
            /\ mem' = Overlay(mem, m)
            /\ fb_ret' = BulkRet("write_sprites", count, m)
    /\ UNCHANGED <<heap, handle, fb_data, fb_capacity, out_slot, particles,
                   watch, watch_val, created, sprite_log>>
    /\ UNCHANGED <<fontVars, gpuVars>>

lean_afferent_particles_update_bouncing_and_write_sprites ==
    /\ Live
    /\ \E count \in 0..MaxCount :
        \E r \in {update_bouncing_and_write_sprites(particles, count, sim.dt, sim.r,
                      sim.w, sim.ht, FALSE, afferent_float_buffer_capacity,
                      Marks(fb_capacity + MaxCount * ParticleStride))} :
            /\ particles' = r[1]
            /\ mem' = Overlay(mem, r[2])
            /\ fb_ret' = BulkRet("bouncing_sprites", count, r[2])
    /\ UNCHANGED <<heap, handle, fb_data, fb_capacity, out_slot,
                   watch, watch_val, created, sprite_log>>
    /\ UNCHANGED <<fontVars, gpuVars>>

lean_afferent_particles_update_bouncing_and_write_circles ==
    /\ Live
    /\ \E count \in 0..MaxCount :
        \E r \in {update_bouncing_and_write_circles(particles, count, sim.dt, sim.r,
                      sim.w, sim.ht, FALSE, afferent_float_buffer_capacity,
                      Marks(fb_capacity + MaxCount * ParticleStride))} :
            /\ particles' = r[1]
            /\ mem' = Overlay(mem, r[2])
            /\ fb_ret' = BulkRet("bouncing_circles", count, r[2])
    /\ UNCHANGED <<heap, handle, fb_data, fb_capacity, out_slot,
                   watch, watch_val, created, sprite_log>>
    /\ UNCHANGED <<fontVars, gpuVars>>

\* a FloatBuffer was created, the host has its particle array and parameters
InitBulk ==
    /\ \E capacity \in BulkCapacities :
        LET r == afferent_float_buffer_create(capacity, FALSE, 1, 2) IN
        /\ heap = r.live
        /\ handle = r.out
        /\ out_slot = r.out
        /\ fb_data = r.data
        /\ fb_capacity = r.capacity
        /\ mem = r.floats
        /\ created = [capacity |-> capacity, data |-> r.data]
        /\ fb_ret = Ret("create", r.result, "ok", 0, capacity)
    /\ particles \in BulkArrays
    /\ watch = NoIndex
    /\ watch_val = Unwritten
    /\ sprite_log = <<>>
    /\ IdleFont
    /\ IdlePool /\ IdleRenderer /\ IdleDraw
    /\ IdleHandles
    /\ sim \in Sims
    /\ IdleCache
    /\ curl_ret = NoHostCall

NextBulk ==
    \/ lean_afferent_float_buffer_write_sprites_from_particles
    \/ lean_afferent_particles_update_bouncing_and_write_sprites
    \/ lean_afferent_particles_update_bouncing_and_write_circles

SpecBulk == InitBulk /\ [][NextBulk]_vars

\* ------------------------------------- disk_cache_ffi.c: the cache write
\* The file system is followed at two paths: the destination and the
\* temporary file path.tmp.<pid>.  A file is its bytes.
Bytes == {1, 2}
ByteStrings == UNION {[1..n -> Bytes] : n \in 0..MaxBytes}
File(bytes) == [exists |-> TRUE, bytes |-> bytes]

\* the library calls of lean_disk_cache_write that can fail
CacheFailures == {"none", "strdup", "mkpath", "fopen", "rename"}

CacheRet(result, msg) == [result |-> result, msg |-> msg]

\* lean_disk_cache_write(path, data).  fails: the library call that fails;
\* written: what fwrite returned; flushed: the bytes in the temporary file
\* after fclose, fewer than written when the flush of fclose failed (the
\* result of fclose is not looked at).
DiskCacheWrite(fs, data, fails, written, flushed) ==
    IF fails = "strdup" THEN [files |-> fs, ret |-> CacheRet("error", "Out of memory")]
    ELSE IF fails = "mkpath"
    THEN [files |-> fs, ret |-> CacheRet("error", "Failed to create directories")]
    ELSE IF fails = "fopen" THEN [files |-> fs, ret |-> CacheRet("error", "strerror")]
    ELSE LET fs1 == [fs EXCEPT !.tmp = File(SubSeq(data, 1, flushed))] IN
         IF written # Len(data)
         THEN [files |-> [fs1 EXCEPT !.tmp = Absent], ret |-> CacheRet("error", "Short write")]
         ELSE IF fails = "rename"
         THEN [files |-> [fs1 EXCEPT !.tmp = Absent], ret |-> CacheRet("error", "strerror")]
         ELSE [files |-> [dest |-> fs1.tmp, tmp |-> Absent], ret |-> CacheRet("ok", "")]

lean_disk_cache_write ==
    /\ \E data \in ByteStrings, fails \in CacheFailures :
       \E written \in 0..Len(data) : \E flushed \in 0..written :
       \E r \in {DiskCacheWrite(files, data, fails, written, flushed)} :
            /\ files' = r.files
            /\ cache_ret' = [op |-> "write", data |-> data, result |-> r.ret.result,
                              msg |-> r.ret.msg, written |-> written,
                              flushed |-> flushed]
    /\ UNCHANGED <<sim, curl_ret>>
    /\ UNCHANGED <<coreVars, handleVars, ftVars>>

\* the destination is absent or holds what an earlier write left
InitCache ==
    /\ IdleFB /\ IdleFont /\ IdlePool /\ IdleRenderer /\ IdleDraw
    /\ IdleHandles
    /\ sim = NoSim
    /\ files \in [dest : {Absent} \cup {File(b) : b \in ByteStrings}, tmp : {Absent}]
    /\ cache_ret = NoHostCall
    /\ curl_ret = NoHostCall

NextCache == lean_disk_cache_write

SpecCache == InitCache /\ [][NextCache]_vars

\* --------------------------------------------- curl_ffi.c: the HTTP GET
\* A BinaryBuffer is [data, size, bytes]: data is NULL or the allocation,
\* bytes what the allocation holds.
EmptyBuffer == [data |-> NULL, size |-> 0, bytes |-> <<>>]

\* the chunks libcurl hands to the write callback, and the transfers
ChunkSet == {<<1>>, <<2>>, <<2, 1>>, <<1, 1, 2>>}
Transfers == UNION {[1..n -> ChunkSet] : n \in 0..MaxChunks}
HttpCodes == {200, 204, 404, 500}
CurlCodes == {"CURLE_OK", "CURLE_OPERATION_TIMEDOUT"}

\* bug: the chunk is copied to the start of the buffer
callback_overwrites(buf, contents, realloc_ok) ==
    LET realsize == Len(contents) IN
    IF ~realloc_ok THEN [buf |-> buf, ret |-> 0]
    ELSE [buf |-> [data |-> 1, size |-> realsize, bytes |-> contents], ret |-> realsize]

\* write_binary_callback: what it leaves in the buffer and what it returns
write_binary_callback(buf, contents, realloc_ok) ==
    LET realsize == Len(contents) IN
    IF ~realloc_ok THEN [buf |-> buf, ret |-> 0]
    ELSE [buf |-> [data |-> 1, size |-> buf.size + realsize,
                   bytes |-> buf.bytes \o contents],
          ret |-> realsize]

\* curl_easy_perform: the callback is called for chunk i, i + 1, ..; a return
\* value other than the size of the chunk aborts the transfer.  fail_at: the
\* chunk at which realloc fails (0: none); res: how the transfer ends
\* otherwise.  delivered: the chunks the callback took.
RECURSIVE Perform(_, _, _, _, _)
Perform(buf, chunks, i, fail_at, res) ==
    IF i > Len(chunks) THEN [buf |-> buf, res |-> res, delivered |-> chunks]
    ELSE LET c == write_binary_callback(buf, chunks[i], i # fail_at) IN
         IF c.ret # Len(chunks[i])
         THEN [buf |-> c.buf, res |-> "CURLE_WRITE_ERROR",
               delivered |-> SubSeq(chunks, 1, i - 1)]
         ELSE Perform(c.buf, chunks, i + 1, fail_at, res)

\* lean_curl_http_get_binary.  handle, buffer: what became of the curl handle
\* and of the allocation of the response buffer.
CurlHttpGetBinary(init_ok, chunks, fail_at, res, http_code) ==
    IF ~init_ok
    THEN [result |-> "error", bytes |-> <<>>, msg |-> "Failed to initialize CURL handle",
          handle |-> "none", buffer |-> "none", res |-> "none", http_code |-> 0,
          delivered |-> <<>>]
    ELSE LET t == Perform(EmptyBuffer, chunks, 1, fail_at, res)
             response == t.buf
             ok == t.res = "CURLE_OK" /\ http_code = 200 /\ response.data # NULL
                       /\ response.size > 0
         IN [result |-> IF ok THEN "ok" ELSE "error",
             bytes |-> IF ok THEN SubSeq(response.bytes, 1, response.size) ELSE <<>>,
             msg |-> IF t.res # "CURLE_OK" THEN "curl_easy_strerror"
                     ELSE IF ok THEN "" ELSE "HTTP error",
             handle |-> "cleaned",
             buffer |-> IF response.data # NULL THEN "freed" ELSE "none",
             res |-> t.res,
             http_code |-> IF t.res = "CURLE_OK" THEN http_code ELSE 0,
             delivered |-> t.delivered]

lean_curl_http_get_binary ==
    /\ \E init_ok \in BOOLEAN, chunks \in Transfers, fail_at \in 0..MaxChunks,
          res \in CurlCodes, http_code \in HttpCodes :
        curl_ret' = [op |-> "get"] @@
                    CurlHttpGetBinary(init_ok, chunks, fail_at, res, http_code)
    /\ UNCHANGED <<sim, files, cache_ret>>
    /\ UNCHANGED <<coreVars, handleVars, ftVars>>

InitCurl == IdleFB /\ IdleFont /\ IdleGpu

NextCurl == lean_curl_http_get_binary

SpecCurl == InitCurl /\ [][NextCurl]_vars

\* ------------------------------------------------------------------ claims

\* C1: for every capacity and every index i < capacity, after a successful
\* create(capacity) and set(buf, i, v), get(buf, i) returns exactly v until
\* the next write to index i (i is the watched index, v the last float
\* written to it).
C1_RoundTrip ==
    (fb_ret.op = "get" /\ watch /= NoIndex /\ fb_ret.index = watch
        /\ watch_val /= Unwritten)
    => fb_ret.value = watch_val

\* The round trip of C1 for the capacities whose byte size does not wrap.
RoundTripWithinAllocation ==
    (fb_ret.op = "get" /\ watch /= NoIndex /\ fb_ret.index = watch
        /\ watch_val /= Unwritten /\ watch < Len(mem))
    => fb_ret.value = watch_val

\* C3: after a successful create(capacity), capacity() returns capacity and
\* every element i < capacity reads as 0 until it is first written.
C3_ZeroInit ==
    /\ (fb_ret.op = "capacity" => fb_ret.value = created.capacity)
    /\ (fb_ret.op = "get" /\ watch /= NoIndex /\ fb_ret.index = watch
            /\ watch_val = Unwritten
        => fb_ret.value = 0)

\* C4: create returns AFFERENT_ERROR_BUFFER_FAILED when out is NULL or when
\* the header or the data allocation fails; then *out is not written, no
\* allocation of the call stays live, and the bridge reports an IO error and
\* hands the host no handle.
C4_CreateFailure ==
    [][ /\ (fb_ret'.op = "create_null_out"
              => /\ fb_ret'.result = AFFERENT_ERROR_BUFFER_FAILED
                 /\ heap' = heap
                 /\ out_slot' = out_slot
                 /\ handle' = handle)
        /\ (fb_ret'.op = "create" /\ fb_ret'.index \in {1, 2}
              => fb_ret'.result = AFFERENT_ERROR_BUFFER_FAILED)
        /\ (fb_ret'.op = "create" /\ fb_ret'.result /= AFFERENT_OK
              => /\ heap' = heap
                 /\ out_slot' = NULL
                 /\ fb_ret'.io = "error"
                 /\ handle' = NULL) ]_vars

\* a create whose data allocation failed after the header allocation succeeded
C4_Witness ==
    /\ fb_ret.op = "create"
    /\ fb_ret.index = 2
    /\ fb_ret.result = AFFERENT_ERROR_BUFFER_FAILED

C5_FixedStorage ==
    Live =>
        /\ fb_capacity = created.capacity
        /\ fb_data = created.data
        /\ fb_data \in heap
        /\ Len(mem) = AllocFloats(created.capacity)
        /\ (fb_ret.op = "data" => fb_ret.value = created.data)
        /\ (fb_ret.op = "capacity" => fb_ret.value = created.capacity)

\* data() is called after batched and bulk writes went through the buffer
C5_Witness ==
    /\ Live
    /\ fb_ret.op = "data"
    /\ fb_ret.value = created.data
    /\ particles /= <<>>
    /\ \E j \in 1..Len(mem) : mem[j] /= 0

\* C6: for a codepoint below the ceiling that is already cached, a further
\* cache_glyph call returns the same entry and changes nothing of the font:
\* not the entry's atlas position, size and metrics, not the atlas cursor,
\* the row height or any atlas byte.
C6_CachedIsIdempotent ==
    [][ (/\ font_ret'.op = "cache_glyph"
         /\ font_ret'.codepoint < MAX_GLYPHS
         /\ font.glyphs[font_ret'.codepoint].valid /= 0)
        => /\ font_ret'.result = font_ret'.codepoint + 1
           /\ font' = font ]_vars

\* a cached glyph with a bitmap was asked for again
C6_Witness ==
    /\ font_ret.reason = "cached"
    /\ font.glyphs[font_ret.codepoint].valid = 1
    /\ font.glyphs[font_ret.codepoint].width > 0
    /\ font.glyphs[font_ret.codepoint].height > 0

\* C7: a cache_glyph call that fails for lack of vertical room returns
\* failure, leaves the failing codepoint uncached, and leaves every glyph
\* table entry and every atlas byte unchanged.
C7_FullKeepsCache ==
    [][ font_ret'.reason = "atlas_full"
        => /\ font_ret'.result = NULL
           /\ font'.glyphs[font_ret'.codepoint].valid = 0
           /\ font'.glyphs = font.glyphs
           /\ font'.atlas_data = font.atlas_data ]_vars

\* a call failed for lack of vertical room while a glyph with a bitmap is cached
C7_Witness ==
    /\ font_ret.reason = "atlas_full"
    /\ \E c \in DOMAIN font.glyphs :
          /\ font.glyphs[c].valid = 1
          /\ font.glyphs[c].width > 0
          /\ font.glyphs[c].height > 0
          /\ \E i \in DOMAIN font.atlas_data : font.atlas_data[i] = Pixel(c)

\* C8: once a cache_glyph call has failed for lack of vertical room, every
\* later call for a not-yet-cached codepoint fails.
C8_FullIsPermanent ==
    [][ (/\ full_rows /= NoFailure
         /\ font_ret'.op = "cache_glyph"
         /\ font_ret'.codepoint < MAX_GLYPHS
         /\ font.glyphs[font_ret'.codepoint].valid = 0)
        => font_ret'.result = NULL ]_vars

\* C8 as amended: once a call has failed for lack of vertical room, every
\* later call for a not-yet-cached codepoint whose bitmap has at least as
\* many rows as a bitmap that failed so fails too; nothing makes room again:
\* the atlas size never changes and the cursor row never decreases.
C8_FullForTallerGlyphs ==
    [][ /\ (/\ full_rows /= NoFailure
            /\ font_ret'.op = "cache_glyph"
            /\ font_ret'.codepoint < MAX_GLYPHS
            /\ font.glyphs[font_ret'.codepoint].valid = 0
            /\ font_ret'.rows >= full_rows)
           => font_ret'.result = NULL
        /\ font'.atlas_width = font.atlas_width
        /\ font'.atlas_height = font.atlas_height
        /\ font'.atlas_cursor_y >= font.atlas_cursor_y ]_vars

\* after a failure for lack of room, a call with a taller bitmap failed too
C8_Witness ==
    /\ font_ret.reason = "atlas_full"
    /\ full_rows /= NoFailure
    /\ font_ret.rows > full_rows

\* C9: cache_glyph with a codepoint at or above MAX_GLYPHS returns not-found
\* and modifies no font state; the glyph table has entries below the ceiling
\* only, and each valid entry's stored codepoint equals its table index.
C9_Ceiling ==
    [][ /\ (font_ret'.op = "cache_glyph" /\ font_ret'.codepoint >= MAX_GLYPHS
              => font_ret'.result = NULL /\ font' = font)
        /\ \A c \in DOMAIN font'.glyphs :
              /\ c < MAX_GLYPHS
              /\ (font'.glyphs[c].valid /= 0 => font'.glyphs[c].codepoint = c) ]_vars

\* a codepoint at the ceiling was asked for while a glyph above index 0 is cached
C9_Witness ==
    /\ font_ret.op = "cache_glyph"
    /\ font_ret.codepoint = MAX_GLYPHS
    /\ font_ret.result = NULL
    /\ \E c \in DOMAIN font.glyphs : c > 0 /\ font.glyphs[c].valid = 1

\* C10: over cache_glyph calls, atlas_cursor_y never decreases, atlas_cursor_x
\* decreases only in a step that increases atlas_cursor_y, and each
\* successfully cached new glyph advances atlas_cursor_x by its bitmap
\* width + 1.
C10_CursorAdvances ==
    [][ /\ font'.atlas_cursor_y >= font.atlas_cursor_y
        /\ (font'.atlas_cursor_x < font.atlas_cursor_x
              => font'.atlas_cursor_y > font.atlas_cursor_y)
        /\ (font_ret'.reason = "new"
              => font'.atlas_cursor_x = font.atlas_cursor_x + font_ret'.width + 1) ]_vars

\* C10 as amended: atlas_cursor_y never decreases, atlas_cursor_x decreases
\* only in a step that increases atlas_cursor_y, and each successfully cached
\* new glyph leaves atlas_cursor_x at the glyph's atlas_x + bitmap width + 1,
\* atlas_x being the cursor x before the call, or 1 when the call wrapped to
\* a new row.
C10_CursorAdvancesFromPlacement ==
    [][ /\ font'.atlas_cursor_y >= font.atlas_cursor_y
        /\ (font'.atlas_cursor_x < font.atlas_cursor_x
              => font'.atlas_cursor_y > font.atlas_cursor_y)
        /\ (font_ret'.reason = "new"
              => LET g == font'.glyphs[font_ret'.codepoint]
                     wrapped == font'.atlas_cursor_y > font.atlas_cursor_y
                 IN /\ g.atlas_x = (IF wrapped THEN 1 ELSE font.atlas_cursor_x)
                    /\ g.atlas_y = font'.atlas_cursor_y
                    /\ font'.atlas_cursor_x = g.atlas_x + font_ret'.width + 1) ]_vars

\* a new glyph was cached by a call that wrapped to a new row
C10_Witness ==
    /\ font_ret.reason = "new"
    /\ font.glyphs[font_ret.codepoint].atlas_x = 1
    /\ font.glyphs[font_ret.codepoint].atlas_y > 1
    /\ font.atlas_cursor_x = font_ret.width + 2

\* the sum, over the bytes of text up to the n-th, of the advance of the
\* glyph of each byte that cache_glyph yielded
RECURSIVE SumOfAdvances(_, _, _, _)
SumOfAdvances(f, text, yields, n) ==
    IF n = 0 THEN 0
    ELSE SumOfAdvances(f, text, yields, n - 1)
         + (IF yields[n] /= NULL THEN f.glyphs[text[n]].advance_x ELSE 0)

\* C11: afferent_text_measure returns as width the sum, over the bytes of the
\* text in order, of advance_x of every glyph cache_glyph yields, adding 0 for
\* the bytes whose glyph cannot be cached, and as height the font's
\* line_height whatever the text; with a NULL font or text both are 0.
C11_MeasureSumsAdvances ==
    text_ret.op = "measure" =>
        IF text_ret.font_null \/ text_ret.text_null
        THEN text_ret.width = 0 /\ text_ret.height = 0
        ELSE /\ Len(text_ret.yields) = Len(text_ret.text)
             /\ \A i \in 1..Len(text_ret.text) :
                   text_ret.yields[i] /= NULL
                   => /\ font.glyphs[text_ret.text[i]].valid = 1
                      /\ font.glyphs[text_ret.text[i]].advance_x
                           = face[text_ret.text[i]].advance
             /\ text_ret.width
                  = SumOfAdvances(font, text_ret.text, text_ret.yields, Len(text_ret.text))
             /\ text_ret.height = font.line_height

\* a two-byte text was measured: one glyph was yielded, one could not be cached
C11_Witness ==
    /\ text_ret.op = "measure"
    /\ Len(text_ret.text) = 2
    /\ text_ret.yields[1] /= NULL
    /\ text_ret.yields[2] = NULL
    /\ text_ret.width = face[text_ret.text[1]].advance
    /\ text_ret.width > 0

\* the bytes of the rendered text for which a quad is due: the glyph was
\* yielded and has a bitmap
QuadBytes ==
    {i \in 1..Len(text_ret.text) :
        /\ text_ret.yields[i] /= NULL
        /\ font.glyphs[text_ret.text[i]].width > 0
        /\ font.glyphs[text_ret.text[i]].height > 0}

\* C12: afferent_text_generate_vertices emits 4 vertices and the 6 indices
\* base+0, base+1, base+2, base+0, base+2, base+3 for each byte whose glyph is
\* cached with width > 0 and height > 0 and nothing for any other byte:
\* vertex_count = 4k, index_count = 6k, k <= strlen(text), every index is
\* below vertex_count; the pen advances by advance_x for every cached glyph,
\* zero-size ones included.
C12_QuadPerGlyph ==
    text_ret.op = "render" =>
        IF text_ret.ret = 1
        THEN LET text == text_ret.text
                 k == Cardinality(QuadBytes)
             IN /\ k <= Len(text)
                /\ text_ret.vertex_count = 4 * k
                /\ Len(text_ret.vertices) = 4 * k
                /\ text_ret.index_count = 6 * k
                /\ Len(text_ret.indices) = 6 * k
                /\ \A j \in 1..Len(text_ret.indices) :
                      text_ret.indices[j] < text_ret.vertex_count
                /\ \A q \in 0..(k - 1) :
                      \A j \in 1..6 :
                         text_ret.indices[6 * q + j]
                           = 4 * q + <<0, 1, 2, 0, 2, 3>>[j]
                /\ Len(text_ret.yields) = Len(text)
                /\ Len(text_ret.pens) = Len(text)
                /\ \A i \in 1..Len(text) :
                      LET before == IF i = 1 THEN text_ret.x ELSE text_ret.pens[i]
                          after == IF i = Len(text) THEN text_ret.cursor_x
                                   ELSE text_ret.pens[i + 1]
                      IN /\ (i = 1 => text_ret.pens[1] = text_ret.x)
                         /\ after = before
                              + (IF text_ret.yields[i] /= NULL
                                 THEN font.glyphs[text[i]].advance_x ELSE 0)
        ELSE /\ ~text_ret.wrote_out
             /\ text_ret.vertex_count = 0
             /\ text_ret.index_count = 0

\* a blank glyph, cached and without quad, moved the pen before a glyph with a quad
C12_Witness ==
    /\ text_ret.op = "render"
    /\ text_ret.ret = 1
    /\ Len(text_ret.text) = 2
    /\ text_ret.yields[1] /= NULL
    /\ font.glyphs[text_ret.text[1]].width = 0
    /\ QuadBytes = {2}
    /\ text_ret.vertex_count = 4
    /\ text_ret.pens[2] > text_ret.pens[1]

\* the affine transform <<a, b, c, d, tx, ty>> applied to a point in pixel space
TransformX(t, px, py) == FMul(t[1], px) + FMul(t[3], py) + t[5]
TransformY(t, px, py) == FMul(t[2], px) + FMul(t[4], py) + t[6]

\* C13: text placement applies the transform [a,b,c,d,tx,ty] to each glyph
\* quad corner in pixel space, x' = a*x + c*y + tx, y' = b*x + d*y + ty,
\* before the conversion to normalized device coordinates; with the identity
\* transform the vertices are those of the untransformed placement.
C13_TransformApplied ==
    (text_ret.op = "render" /\ text_ret.ret = 1) =>
        \A i \in QuadBytes :
            LET n == Cardinality({j \in QuadBytes : j < i})
                glyph == font.glyphs[text_ret.text[i]]
                gx == text_ret.pens[i] + glyph.bearing_x
                gy == text_ret.y - glyph.bearing_y
                gw == Unit * glyph.width
                gh == Unit * glyph.height
                corners == << <<gx, gy>>, <<gx + gw, gy>>,
                              <<gx + gw, gy + gh>>, <<gx, gy + gh>> >>
                t == text_ret.transform
            IN \A c \in 1..4 :
                  /\ text_ret.vertices[4 * n + c][1]
                       = NdcX(TransformX(t, corners[c][1], corners[c][2]),
                              text_ret.screen_width)
                  /\ text_ret.vertices[4 * n + c][2]
                       = NdcY(TransformY(t, corners[c][1], corners[c][2]),
                              text_ret.screen_height)

\* The placement part of C13 for the identity transform.
IdentityPlacement ==
    (text_ret.op = "render" /\ text_ret.ret = 1
        /\ text_ret.transform = IdentityTransform)
    => C13_TransformApplied

\* C14: after any sequence of acquire_buffer and reset_frame calls the slot
\* count of each of the four pools is between 0 and BUFFER_POOL_SIZE, and an
\* acquire_buffer that finds no fitting free slot in a pool that is at its
\* maximum slot count returns a new buffer that is in no pool and leaves the
\* pools as they were.
CountsInRange ==
    \A p \in PoolNames : g_buffer_pool[p].count \in 0..BUFFER_POOL_SIZE

InPool(pool, buffer) ==
    \E p \in PoolNames : \E i \in SlotIndices : pool[p].slots[i].buffer = buffer

FullPoolFallsBack ==
    \A p \in PoolNames, n \in Requests :
        (/\ g_buffer_pool[p].count >= BUFFER_POOL_SIZE
         /\ FittingFree(g_buffer_pool[p].slots, BUFFER_POOL_SIZE, n) = {}
         /\ pool_ret'.op = "acquire"
         /\ pool_ret'.pool = p
         /\ pool_ret'.required_size = n)
        => /\ g_buffer_pool' = g_buffer_pool
           /\ pool_ret'.slot = NoSlot
           /\ pool_ret'.buffer # NULL
           /\ ~InPool(g_buffer_pool', pool_ret'.buffer)

C14_PoolBounded == []CountsInRange /\ [][FullPoolFallsBack]_vars

C14_Witness ==
    /\ pool_ret.op = "acquire"
    /\ pool_ret.slot = NoSlot
    /\ g_buffer_pool[pool_ret.pool].count = BUFFER_POOL_SIZE

\* C15: the buffer an acquire_buffer call returns has capacity >=
\* required_size; when it is a pooled slot, that slot holds the buffer and is
\* marked in_use; and no slot is returned twice between two reset_frame calls.
C15_AcquireFits ==
    /\ pool_ret.op = "acquire" =>
        /\ pool_ret.capacity >= pool_ret.required_size
        /\ pool_ret.slot # NoSlot =>
            LET s == g_buffer_pool[pool_ret.pool].slots[pool_ret.slot] IN
            /\ s.in_use
            /\ s.buffer = pool_ret.buffer
            /\ s.capacity = pool_ret.capacity
    /\ \A p \in PoolNames : \A i \in SlotIndices : frame_returns[p][i] <= 1

C15_Witness ==
    /\ pool_ret.op = "acquire"
    /\ ~pool_ret.made
    /\ \A i \in SlotIndices : frame_returns[pool_ret.pool][i] = 1

\* C16: reset_frame clears the in_use flag of every slot of every pool and
\* leaves the slot counts, the buffer handles and the capacities as they
\* were, making and releasing no buffer; the acquire_buffer that follows it
\* returns a slot the pool already held whenever one is large enough.
ResetClearsFlagsOnly ==
    pool_ret'.op = "reset" =>
        /\ \A p \in PoolNames :
            /\ g_buffer_pool'[p].count = g_buffer_pool[p].count
            /\ \A i \in SlotIndices :
                /\ ~g_buffer_pool'[p].slots[i].in_use
                /\ g_buffer_pool'[p].slots[i].buffer = g_buffer_pool[p].slots[i].buffer
                /\ g_buffer_pool'[p].slots[i].capacity = g_buffer_pool[p].slots[i].capacity
        /\ next_buffer' = next_buffer

ReusedAfterReset ==
    (/\ pool_ret.op = "reset"
     /\ pool_ret'.op = "acquire"
     /\ \E i \in 1..g_buffer_pool[pool_ret'.pool].count :
            g_buffer_pool[pool_ret'.pool].slots[i].capacity >= pool_ret'.required_size)
    => /\ pool_ret'.slot \in 1..g_buffer_pool[pool_ret'.pool].count
       /\ pool_ret'.buffer = g_buffer_pool[pool_ret'.pool].slots[pool_ret'.slot].buffer
       /\ next_buffer' = next_buffer

C16_ResetFrame == [][ResetClearsFlagsOnly /\ ReusedAfterReset]_vars

C16_Witness ==
    /\ pool_ret.op = "acquire"
    /\ pool_ret.slot # NoSlot
    /\ ~pool_ret.made
    /\ frame_returns[pool_ret.pool][pool_ret.slot] = 1

\* C17: the renderer moves Uninitialized -> Ready -> Frame-in-progress ->
\* Ready and nowhere else: a begin_frame that succeeds takes Ready to
\* Frame-in-progress, end_frame takes Frame-in-progress to Ready, a begin_frame
\* that fails leaves the renderer Ready with no frame open, and never more
\* than one frame is in progress.
LifecycleMoves ==
    {<<"Uninitialized", "Ready">>, <<"Ready", "Frame-in-progress">>,
     <<"Frame-in-progress", "Ready">>}

FrameObjects(r) == {r.currentCommandBuffer, r.currentEncoder, r.currentDrawable}

OneFrameAtMost ==
    /\ frames_open \in {0, 1}
    /\ frames_open = 1 <=> LifecycleState(renderer) = "Frame-in-progress"
    /\ LifecycleState(renderer) = "Ready" => FrameObjects(renderer) = {NULL}
    /\ LifecycleState(renderer) = "Frame-in-progress" => NULL \notin FrameObjects(renderer)

LifecycleStep ==
    /\ LifecycleState(renderer') # LifecycleState(renderer) =>
            <<LifecycleState(renderer), LifecycleState(renderer')>> \in LifecycleMoves
    /\ rend_ret'.op = "begin_frame" =>
        /\ LifecycleState(renderer) = "Ready"
        /\ rend_ret'.result = AFFERENT_OK =>
                LifecycleState(renderer') = "Frame-in-progress"
        /\ rend_ret'.result # AFFERENT_OK =>
                /\ LifecycleState(renderer') = "Ready"
                /\ frames_open' = 0
    /\ rend_ret'.op = "end_frame" =>
        /\ LifecycleState(renderer) = "Frame-in-progress"
        /\ LifecycleState(renderer') = "Ready"

C17_Lifecycle == []OneFrameAtMost /\ [][LifecycleStep]_vars

\* a frame was begun and ended
C17_Witness ==
    /\ rend_ret.op = "end_frame"
    /\ LifecycleState(renderer) = "Ready"
    /\ frames_open = 0

\* C18: whatever the native begin_frame returns, the bridge returns an IO
\* success whose value is true exactly for AFFERENT_OK, and after a failed
\* begin_frame the host can call begin_frame again.
C18_FailedBeginSkipsFrame ==
    rend_ret.op = "begin_frame" =>
        /\ rend_ret.io = "ok"
        /\ rend_ret.value = (rend_ret.result = AFFERENT_OK)
        /\ rend_ret.result # AFFERENT_OK => ENABLED lean_afferent_renderer_begin_frame

C18_Witness ==
    /\ rend_ret.op = "begin_frame"
    /\ rend_ret.result = "AFFERENT_ERROR_DEVICE_FAILED"
    /\ rend_ret.value = FALSE

\* C19: a set_msaa_enabled call made while a frame is in progress leaves the
\* active pipeline pointers as they are, they stay the same until the frame
\* ends, and a begin_frame that succeeds makes the variant of the toggle's
\* value at that call the active one, without changing the toggle.
MsaaFrameScoped ==
    /\ (LifecycleState(renderer) = "Frame-in-progress"
            /\ LifecycleState(renderer') = "Frame-in-progress") =>
            ActivePipelines(renderer') = ActivePipelines(renderer)
    /\ (rend_ret'.op = "set_msaa_enabled"
            /\ LifecycleState(renderer) = "Frame-in-progress") =>
            /\ ActivePipelines(renderer') = ActivePipelines(renderer)
            /\ renderer'.msaaEnabled = (rend_ret'.enabled # 0)
    /\ (rend_ret'.op = "begin_frame" /\ rend_ret'.result = AFFERENT_OK) =>
            /\ ActivePipelines(renderer') =
                    <<Variant(renderer.msaaEnabled), Variant(renderer.msaaEnabled),
                      Variant(renderer.msaaEnabled)>>
            /\ renderer'.msaaEnabled = renderer.msaaEnabled

C19_MsaaFrameScoped == [][MsaaFrameScoped]_vars

\* the toggle was changed in a frame whose pipelines are those of the old value
C19_Witness ==
    /\ rend_ret.op = "set_msaa_enabled"
    /\ LifecycleState(renderer) = "Frame-in-progress"
    /\ renderer.pipelineState # Variant(renderer.msaaEnabled)

\* C20: a draw call whose instance count is 0 or whose instance array holds
\* fewer than count x stride floats returns success to the host and makes no
\* native draw call, on the array paths and on the FloatBuffer paths alike.
InvalidDraw(d) == d.count = 0 \/ d.len < d.count * Stride(d.fn)

C20_InvalidDrawIsNoOp ==
    (draw_ret.op # "none" /\ InvalidDraw(draw_ret)) =>
        /\ draw_ret.io = "ok"
        /\ draw_ret.native = NoCall

\* the array-based instanced paths do as the claim says
InstancedArrayIsNoOp ==
    (draw_ret.op = "array" /\ draw_ret.fn \in InstancedFns /\ InvalidDraw(draw_ret)) =>
        /\ draw_ret.io = "ok"
        /\ draw_ret.native = NoCall

\* C21: a vertex array with fewer than 6 floats, the empty one included, and
\* an empty index array give the host an IO error; the native creation
\* function is not called and no buffer handle is made.
C21_EmptyArrayIsError ==
    /\ (host_ret.op = "create_vertex" /\ host_ret.len < 6) =>
        /\ host_ret.r.io = "error"
        /\ host_ret.r.native = NoCall
        /\ host_ret.r.handle = NULL
    /\ (host_ret.op = "create_index" /\ host_ret.len = 0) =>
        /\ host_ret.r.io = "error"
        /\ host_ret.r.native = NoCall
        /\ host_ret.r.handle = NULL

C21_Witness ==
    /\ host_ret.op = "create_vertex"
    /\ host_ret.len = 5
    /\ host_ret.r.msg = "Empty vertex array"

\* C22: the finalizers do nothing: whatever the order of finalizer runs and
\* destroy calls, a resource whose destroy was called exactly once was freed
\* exactly once, a resource whose destroy was never called was never freed,
\* and a finalizer run leaves the native resource as it was.
C22_FreedByDestroyOnly ==
    \A k \in HandleKinds :
        /\ handles[k].destroys = 1 => handles[k].frees = 1 /\ handles[k].native = "freed"
        /\ handles[k].destroys = 0 => handles[k].frees = 0
        /\ (handles[k].destroys = 0 /\ handles[k].obj = "collected") =>
            handles[k].native = "live"

\* one handle was destroyed once and then collected, another was collected
\* without a destroy call
C22_Witness ==
    /\ handles["float_buffer"].obj = "collected"
    /\ handles["float_buffer"].destroys = 1
    /\ handles["font"].obj = "collected"
    /\ handles["font"].destroys = 0

\* C23: whenever a native operation called by a bridge function returns a
\* result other than AFFERENT_OK, the bridge function reports a failure to
\* the host; no such result is dropped.
C23_NoResultDropped ==
    (ft_ret.op # "none" /\ ft_ret.bridge /\ ft_ret.result # AFFERENT_OK) =>
        ft_ret.io = "error"

\* the claim on the bridge functions that do check the result
C23_FontLoadReports ==
    (ft_ret.op = "font_load" /\ ft_ret.result # AFFERENT_OK) => ft_ret.io = "error"

\* C25: over any sequence of text_init, text_shutdown and font_load calls the
\* library handle is non-NULL exactly when the initialisation count is
\* above 0 and the count is never negative; the library is released only
\* by the text_shutdown call that takes the count from 1 to 0, and a
\* text_shutdown at count 0 changes nothing.
LibraryMatchesCount ==
    /\ g_ft_init_count >= 0
    /\ (g_ft_library # NULL) <=> (g_ft_init_count > 0)

ReleasedByLastShutdown ==
    /\ (ft_ret'.done \/ (g_ft_library # NULL /\ g_ft_library' = NULL)) =>
        /\ ft_ret'.op = "text_shutdown"
        /\ g_ft_init_count = 1
        /\ g_ft_init_count' = 0
    /\ (ft_ret'.op = "text_shutdown" /\ g_ft_init_count = 0) =>
        /\ g_ft_library' = g_ft_library
        /\ g_ft_init_count' = g_ft_init_count
        /\ ~ft_ret'.done

C25_LibraryRefCount == []LibraryMatchesCount /\ [][ReleasedByLastShutdown]_vars

\* a text_shutdown took the count to 0 and released the library
C25_Witness ==
    /\ ft_ret.op = "text_shutdown"
    /\ ft_ret.done
    /\ g_ft_init_count = 0
    /\ g_ft_library = NULL

\* C24: in every font state the atlas rectangle of every valid glyph lies
\* inside the atlas with a border of one pixel (atlas_x >= 1, atlas_y >= 1,
\* atlas_x + width < atlas_width, atlas_y + height < atlas_height) and the
\* rectangles of two distinct valid glyphs do not overlap.
ValidGlyphs == {c \in DOMAIN font.glyphs : font.glyphs[c].valid = 1}

GlyphCells(g) ==
    {<<x, y>> : x \in g.atlas_x..(g.atlas_x + g.width - 1),
                y \in g.atlas_y..(g.atlas_y + g.height - 1)}

GlyphsInsideAtlas ==
    \A c \in ValidGlyphs :
        LET g == font.glyphs[c] IN
        /\ g.atlas_x >= 1
        /\ g.atlas_y >= 1
        /\ g.atlas_x + g.width < font.atlas_width
        /\ g.atlas_y + g.height < font.atlas_height

GlyphsDisjoint ==
    \A c, d \in ValidGlyphs :
        c # d => GlyphCells(font.glyphs[c]) \cap GlyphCells(font.glyphs[d]) = {}

C24_GlyphRectangles == GlyphsInsideAtlas /\ GlyphsDisjoint

\* the part of C24 that holds: the top, left and bottom borders
C24_BordersButRight ==
    \A c \in ValidGlyphs :
        LET g == font.glyphs[c] IN
        /\ g.atlas_x >= 1
        /\ g.atlas_y >= 1
        /\ g.atlas_y + g.height < font.atlas_height
        /\ g.width <= font.atlas_width - 2 => g.atlas_x + g.width < font.atlas_width

\* C26: after any sequence of array-based instanced draws the staging buffer
\* is NULL exactly when its recorded capacity is 0; whenever a call reaches
\* its copy loop the capacity is at least the array length; and a call
\* whose array is no longer than the capacity keeps the allocation and
\* does not allocate again.
\* r is the record of an array-based instanced draw
Staged(r) == r.op = "array" /\ r.fn \in InstancedFns

StagingConsistent ==
    /\ (g_instance_buffer = NULL) <=> (g_instance_buffer_capacity = 0)
    /\ (Staged(draw_ret) /\ draw_ret.copied) =>
        /\ g_instance_buffer # NULL
        /\ g_instance_buffer_capacity >= draw_ret.len

StagingReused ==
    (Staged(draw_ret') /\ draw_ret'.len <= g_instance_buffer_capacity) =>
        /\ ~draw_ret'.grew
        /\ g_instance_buffer' = g_instance_buffer
        /\ g_instance_buffer_capacity' = g_instance_buffer_capacity

BulkOps == {"write_sprites", "bouncing_sprites", "bouncing_circles"}

FloatsNeeded(c) ==
    IF c.op = "bouncing_circles" THEN c.count * CircleStride ELSE c.count * ParticleStride

\* the call c, made on the particle array p, is one that may write
MayWrite(c, p) ==
    /\ c.count > 0
    /\ Len(p) >= ParticleStride * c.count
    /\ fb_capacity >= FloatsNeeded(c)

BulkWriteGuarded ==
    fb_ret'.op \in BulkOps =>
        /\ fb_ret'.written # {} => MayWrite(fb_ret', particles)
        /\ ~MayWrite(fb_ret', particles) => mem' = mem /\ particles' = particles
        /\ \A i \in fb_ret'.written : i < fb_capacity

C27_BulkWritesGuarded == [][BulkWriteGuarded]_vars

\* two circles were written into a buffer of 8 floats, which is too small
\* for two sprites
C27_Witness ==
    /\ fb_ret.op = "bouncing_circles"
    /\ fb_ret.count = 2
    /\ fb_capacity = 2 * CircleStride
    /\ fb_ret.written = 0..(2 * CircleStride - 1)

\* C28: after one fused bouncing update with screenWidth >= 2 * r and
\* screenHeight >= 2 * r, every processed particle has r <= x <= screenWidth - r
\* and r <= y <= screenHeight - r, each velocity component keeps its
\* magnitude and has its sign flipped exactly when its axis was clamped, the
\* hue is unchanged, and the record written to the FloatBuffer carries the
\* updated x and y (as floats).
FusedOps == {"bouncing_sprites", "bouncing_circles"}

\* particle i of the array p before and q after the update; o: the index of
\* its record in the buffer m
BouncedParticle(p, q, m, i, o) ==
    LET base == i * ParticleStride
        movedX == p[base + 1] + DMul(p[base + 3], sim.dt)
        movedY == p[base + 2] + DMul(p[base + 4], sim.dt)
    IN  /\ sim.r <= q[base + 1] /\ q[base + 1] <= sim.w - sim.r
        /\ sim.r <= q[base + 2] /\ q[base + 2] <= sim.ht - sim.r
        /\ q[base + 3] = IF q[base + 1] # movedX THEN 0 - p[base + 3] ELSE p[base + 3]
        /\ q[base + 4] = IF q[base + 2] # movedY THEN 0 - p[base + 4] ELSE p[base + 4]
        /\ q[base + 5] = p[base + 5]
        /\ m[o + 1] = ToFloat(q[base + 1])
        /\ m[o + 2] = ToFloat(q[base + 2])

FusedUpdateBounces ==
    (/\ fb_ret'.op \in FusedOps
     /\ MayWrite(fb_ret', particles)
     /\ sim.w >= 2 * sim.r
     /\ sim.ht >= 2 * sim.r) =>
        \A i \in 0..(fb_ret'.count - 1) :
            BouncedParticle(particles, particles', mem', i,
                IF fb_ret'.op = "bouncing_circles" THEN i * CircleStride
                ELSE i * ParticleStride)

C28_FusedUpdateBounces == [][FusedUpdateBounces]_vars

\* an update of two particles clamped one of them on the x axis and left
\* a position that is not a float
C28_Witness ==
    /\ fb_ret.op = "bouncing_sprites"
    /\ fb_ret.count = 2
    /\ fb_ret.written # {}
    /\ sim.w >= 2 * sim.r
    /\ particles[1] = sim.w - sim.r
    /\ particles[3] < 0
    /\ particles[2] # ToFloat(particles[2])
    /\ mem[2] = ToFloat(particles[2])

\* C28 without its premise on the screen size: refuted, a screen narrower
\* than 2 * r leaves x below r
FusedUpdateBouncesAnyScreen ==
    (fb_ret'.op \in FusedOps /\ MayWrite(fb_ret', particles)) =>
        \A i \in 0..(fb_ret'.count - 1) :
            BouncedParticle(particles, particles', mem', i,
                IF fb_ret'.op = "bouncing_circles" THEN i * CircleStride
                ELSE i * ParticleStride)

C28_AnyScreen == [][FusedUpdateBouncesAnyScreen]_vars

\* C29: lean_disk_cache_write is atomic for the destination: the temporary
\* file is renamed over it only after all bytes were written, so after any
\* outcome the destination has its previous state or holds the complete
\* new data; on a short write or a failed rename the temporary file is
\* removed and an error is returned.
WriteIsAtomic ==
    cache_ret'.op = "write" =>
        /\ files'.dest = files.dest \/ files'.dest = File(cache_ret'.data)
        /\ cache_ret'.result = "ok" => files'.dest = File(cache_ret'.data)
        /\ cache_ret'.result = "error" => files'.dest = files.dest /\ files'.tmp = Absent

C29_AtomicWrite == [][WriteIsAtomic]_vars

\* the claim for the calls whose fclose wrote out everything fwrite accepted
C29_AtomicWhenFlushed ==
    [][cache_ret'.op = "write" /\ cache_ret'.flushed = cache_ret'.written => WriteIsAtomic]_vars

\* C30: lean_curl_http_get_binary returns Except.ok only when the transfer
\* succeeded, the HTTP status is 200 and the body is not empty, and the
\* bytes returned are then the received chunks joined in the order of
\* arrival; in every other case it returns Except.error; and whenever the
\* handle was created the response buffer is freed and the handle cleaned up.
RECURSIVE Joined(_)
Joined(chunks) == IF chunks = <<>> THEN <<>> ELSE Head(chunks) \o Joined(Tail(chunks))

C30_GetBinary ==
    curl_ret.op = "get" =>
        /\ curl_ret.result = "ok" <=>
            /\ curl_ret.handle # "none"
            /\ curl_ret.res = "CURLE_OK"
            /\ curl_ret.http_code = 200
            /\ Joined(curl_ret.delivered) # <<>>
        /\ curl_ret.result = "ok" => curl_ret.bytes = Joined(curl_ret.delivered)
        /\ curl_ret.result \in {"ok", "error"}
        /\ curl_ret.handle # "none" =>
            /\ curl_ret.handle = "cleaned"
            /\ curl_ret.buffer \in {"none", "freed"}
            /\ curl_ret.delivered # <<>> => curl_ret.buffer = "freed"

\* a transfer of two chunks succeeded with status 200
C30_Witness ==
    /\ curl_ret.op = "get"
    /\ curl_ret.result = "ok"
    /\ Len(curl_ret.delivered) = 2
    /\ curl_ret.bytes = <<2, 1, 1>>

\* a transfer was aborted at its second chunk: error, buffer freed
C30_AbortedWitness ==
    /\ curl_ret.op = "get"
    /\ curl_ret.res = "CURLE_WRITE_ERROR"
    /\ Len(curl_ret.delivered) = 1
    /\ curl_ret.result = "error"
    /\ curl_ret.buffer = "freed"

====
